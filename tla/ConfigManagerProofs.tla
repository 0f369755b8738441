------------------------ MODULE ConfigManagerProofs ------------------------
(***************************************************************************)
(* Proofs about the configuration manager, for any number of worker        *)
(* threads, profiles and calls, and with the service crashing, exiting and *)
(* restarting at any step: what has been answered is in the file, removed  *)
(* profiles stay removed and sealed ones sealed, except where two calls    *)
(* have overlapped on a profile.  At the end, the commands that call it:   *)
(* what each of them says it has done.                                     *)
(***************************************************************************)
EXTENDS MCConfigManager, Sequences, FiniteSetTheorems, FunctionTheorems, TLAPS

Saving == {"save", "export", "flush"}
ReadOps == {"Fetch", "FetchJSON", "Validate", "SetOption"}
SealedOps == {"Fetch", "FetchJSON", "Validate", "Seal", "Remove", "FetchBackend", "TransferOwnership"}

\* The saved profile s and the object r differ in overrides that only s still has.
Agree(s, r) ==
    /\ s.acl = r.acl /\ s.opts = r.opts /\ s.valid = r.valid /\ s.single = r.single
    /\ s.readonly = r.readonly /\ s.locked = r.locked /\ s.name = r.name /\ s.dco = r.dco
    /\ s.transfer = r.transfer
    /\ s.used = r.used /\ s.tags = r.tags /\ r.overrides \subseteq s.overrides

Readable(p) == file[p] \notin {None, Broken}

\* The file of p, if it is to have one, holds what the object holds.
InFile(p) == HasFile(mem[p]) => Readable(p) /\ Agree(file[p], mem[p])

Checked(s) == s.valid = validate_profile(s.opts)

-----------------------------------------------------------------------------
(* The inductive invariant.  Its first half holds of all profiles. *)

ObjectInv ==
    /\ \A p \in live \cup removed \cup sealed : mem[p] # None
    /\ \A p \in Paths : file[p] # None => mem[p] # None /\ HasFile(mem[p])
    /\ \A p \in Paths : mem[p] # None => Checked(mem[p])
    /\ \A p \in Paths : Readable(p) => Checked(file[p])

WorkerInv ==
    \A w \in Workers :
        /\ ~up => call[w] = Idle
        /\ call[w] # Idle => call[w].path \in Paths /\ mem[call[w].path] # None /\ call[w].op # "idle"
        /\ call[w].op \in ReadOps => call[w].phase = "run"
        /\ call[w].op = "Import" => call[w].phase \in Saving
        /\ call[w].phase \in {"export", "flush"} => HasFile(mem[call[w].path])
        /\ call[w].phase = "flush" => call[w].snap # None /\ Checked(call[w].snap)

\* The second half holds of the profiles on which no two calls have overlapped.
Alone == \A p \in Paths \ overlap : \A v, w \in Workers : call[v].path = p /\ call[w].path = p => v = w

CallInv ==
    \A w \in Workers : LET p == call[w].path IN p \in Paths \ overlap =>
        /\ call[w].phase = "run" => p \in live /\ InFile(p)
        /\ call[w].phase \in Saving /\ call[w].op # "Import" => p \in live
        /\ call[w].phase = "flush" => call[w].snap = Export(mem[p])
        /\ call[w].phase = "unlink" => p \notin live
        /\ call[w].phase \in Saving /\ call[w].op = "Seal" => mem[p].readonly
        /\ p \in sealed => call[w].op \in SealedOps

QuietInv == \A p \in live \ overlap : ~Busy(p) => InFile(p)

RemovedInv == \A p \in removed \ overlap : p \notin live /\ file[p] = None /\ ~Busy(p)

SealedInv ==
    \A p \in sealed \ overlap :
        /\ mem[p].readonly
        /\ Readable(p) => file[p].readonly /\ Frozen(file[p]) = Frozen(mem[p])

ProfileInv == ObjectInv /\ WorkerInv /\ Alone /\ CallInv /\ QuietInv /\ RemovedInv /\ SealedInv
IInv == TypeOK /\ ProfileInv

\* What a step leaves alone in a sealed profile.
KeepsSealed ==
    /\ sealed \subseteq sealed' /\ overlap \subseteq overlap'
    /\ \A p \in sealed \ overlap : Frozen(mem'[p]) = Frozen(mem[p])

-----------------------------------------------------------------------------
(* Saving and loading *)

LEMMA ExportFacts ==
    ASSUME NEW r \in Profile
    PROVE  /\ Export(r) \in SavedProfile
           /\ Agree(Export(r), r)
           /\ Checked(r) => Checked(Export(r))
           /\ Export(r).readonly = r.readonly /\ Frozen(Export(r)) = Frozen(r)
BY DEF Export, Profile, SavedProfile, Agree, Checked, Frozen

LEMMA LoadFacts ==
    ASSUME NEW s \in SavedProfile, Checked(s)
    PROVE  /\ Load(s) \in Profile
           /\ Load(s).persistent
           /\ Agree(s, Load(s)) /\ Checked(Load(s))
           /\ Load(s).readonly = s.readonly /\ Frozen(Load(s)) = Frozen(s)
BY DEF Load, Profile, SavedProfile, Agree, Checked, Frozen

LEMMA AgreeIsExport ==
    ASSUME NEW s \in SavedProfile, NEW r \in Profile, Agree(s, r)
    PROVE  [s EXCEPT !.overrides = r.overrides] = Export(r)
BY DEF Export, Profile, SavedProfile, Agree

LEMMA NewProfileFacts ==
    ASSUME NEW uid \in Users, NEW opts \in Contents, NEW single \in BOOLEAN, NEW persistent \in BOOLEAN
    PROVE  NewProfile(uid, opts, single, persistent) \in Profile /\ Checked(NewProfile(uid, opts, single, persistent))
BY DEF NewProfile, Profile, Checked, Create, ACLRecord, validate_profile

-----------------------------------------------------------------------------
(* Steps of a worker w on the profile p = call[w].path *)

LEMMA BusyWorker ==
    ASSUME IInv, NEW w \in Workers, call[w].phase # "idle"
    PROVE  /\ call[w].path \in Paths /\ call[w].path # None
           /\ mem[call[w].path] # None /\ mem[call[w].path] \in Profile
           /\ call[w].op # "idle" /\ call[w] # Idle /\ up
BY NoneAssumption DEF IInv, TypeOK, ProfileInv, WorkerInv, Idle

LEMMA CommitKeeps ==
    ASSUME IInv, NEW w \in Workers, NEW r \in Profile, Commit(w, r),
           call[w].phase = "run", call[w].op \notin ReadOps,
           HasFile(r) <=> HasFile(mem[call[w].path]), Checked(r),
           mem[call[w].path].readonly => r.readonly,
           call[w].op = "Seal" => r.readonly,
           call[w].op \in SealedOps => Frozen(r) = Frozen(mem[call[w].path])
    PROVE  IInv' /\ KeepsSealed
<1> DEFINE p == call[w].path
<1>0. p \in Paths /\ p # None /\ mem[p] # None /\ mem[p] \in Profile /\ call[w] # Idle /\ up /\ r # None
  BY BusyWorker, NoneAssumption
<1>1. /\ mem' = [mem EXCEPT ![p] = r]
      /\ call' = [call EXCEPT ![w].phase = "save"]
      /\ UNCHANGED <<up, live, file, calls, overlap, sealed, removed>>
  BY DEF Commit
<1>2. TypeOK'
  BY <1>0, <1>1 DEF IInv, TypeOK, Phases
<1>3. /\ mem'[p] = r /\ \A q \in Paths \ {p} : mem'[q] = mem[q]
      /\ \A v \in Workers : /\ call'[v].path = call[v].path /\ call'[v].op = call[v].op
                            /\ call'[v].snap = call[v].snap
                            /\ v # w => call'[v] = call[v]
      /\ call'[w].phase = "save" /\ call'[w] # Idle
  BY <1>0, <1>1 DEF IInv, TypeOK, Idle
<1>4. ObjectInv'
  BY <1>0, <1>1, <1>3 DEF IInv, ProfileInv, ObjectInv, Readable, TypeOK
<1>5. WorkerInv'
  BY <1>0, <1>1, <1>3 DEF IInv, ProfileInv, WorkerInv, TypeOK, Saving, ReadOps
<1>6. Alone' /\ RemovedInv'
  BY <1>1, <1>3 DEF IInv, ProfileInv, Alone, RemovedInv, Busy
<1>7. p \notin overlap => p \in live /\ \A v \in Workers \ {w} : call[v].path # p
  BY <1>0 DEF IInv, ProfileInv, Alone, CallInv
<1>8. CallInv'
  BY <1>0, <1>1, <1>3, <1>7 DEF IInv, ProfileInv, CallInv, InFile, Readable, Saving
<1>9. QuietInv'
  BY <1>0, <1>1, <1>3 DEF IInv, ProfileInv, QuietInv, Busy, InFile, Readable, TypeOK
<1>10. SealedInv'
  BY <1>0, <1>1, <1>3 DEF IInv, ProfileInv, SealedInv, CallInv, Readable, TypeOK
<1>k. KeepsSealed
  BY <1>0, <1>1, <1>3 DEF KeepsSealed, IInv, TypeOK, ProfileInv, CallInv
<1> QED BY <1>k, <1>2, <1>4, <1>5, <1>6, <1>8, <1>9, <1>10 DEF IInv, ProfileInv

\* The call ends without a save: it threw, only read, or dropped an override.
LEMMA ReturnKeeps ==
    ASSUME IInv, NEW w \in Workers, NEW r \in Profile, Return(w), UNCHANGED <<live, file, sealed, removed>>,
           call[w].phase = "run", mem' = [mem EXCEPT ![call[w].path] = r],
           HasFile(r) <=> HasFile(mem[call[w].path]), Checked(r),
           Agree(file[call[w].path], mem[call[w].path]) => Agree(file[call[w].path], r),
           mem[call[w].path].readonly => r.readonly,
           call[w].op \in SealedOps => Frozen(r) = Frozen(mem[call[w].path])
    PROVE  IInv' /\ KeepsSealed
<1> DEFINE p == call[w].path
<1>0. p \in Paths /\ p # None /\ mem[p] # None /\ mem[p] \in Profile /\ call[w] # Idle /\ up /\ r # None
  BY BusyWorker, NoneAssumption
<1>1. call' = [call EXCEPT ![w] = Idle] /\ UNCHANGED <<up, calls, overlap>>
  BY DEF Return
<1>2. TypeOK'
  BY <1>0, <1>1 DEF IInv, TypeOK, Phases, Operations, Idle
<1>3. /\ mem'[p] = r /\ \A q \in Paths \ {p} : mem'[q] = mem[q]
      /\ \A v \in Workers \ {w} : call'[v] = call[v]
      /\ call'[w] = Idle /\ call'[w].path = None /\ call'[w].phase = "idle" /\ call'[w].op = "idle"
  BY <1>0, <1>1 DEF IInv, TypeOK, Idle
<1>4. ObjectInv'
  BY <1>0, <1>1, <1>3 DEF IInv, ProfileInv, ObjectInv, Readable, TypeOK
<1>5. WorkerInv'
  BY <1>0, <1>1, <1>3 DEF IInv, ProfileInv, WorkerInv, TypeOK, Saving, ReadOps
<1>6. Alone' /\ RemovedInv'
  BY <1>1, <1>3, NoneAssumption DEF IInv, ProfileInv, Alone, RemovedInv, Busy, TypeOK
<1>7. p \notin overlap => InFile(p) /\ \A v \in Workers \ {w} : call[v].path # p
  BY <1>0 DEF IInv, ProfileInv, Alone, CallInv
<1>8. CallInv'
  BY <1>0, <1>1, <1>3, <1>7, NoneAssumption DEF IInv, ProfileInv, CallInv, InFile, Readable, Saving
<1>9. QuietInv'
  BY <1>0, <1>1, <1>3, <1>7 DEF IInv, ProfileInv, QuietInv, Busy, InFile, Readable, TypeOK
<1>10. SealedInv'
  BY <1>0, <1>1, <1>3 DEF IInv, ProfileInv, SealedInv, CallInv, Readable, TypeOK
<1>k. KeepsSealed
  BY <1>0, <1>1, <1>3 DEF KeepsSealed, IInv, TypeOK, ProfileInv, CallInv
<1> QED BY <1>k, <1>2, <1>4, <1>5, <1>6, <1>8, <1>9, <1>10 DEF IInv, ProfileInv

LEMMA ThrowKeeps ==
    ASSUME IInv, NEW w \in Workers, call[w].phase = "run", Throw(w)
    PROVE  IInv' /\ KeepsSealed
<1>1. mem[call[w].path] \in Profile /\ Checked(mem[call[w].path]) /\ mem' = [mem EXCEPT ![call[w].path] = mem[call[w].path]]
  BY BusyWorker DEF IInv, TypeOK, ProfileInv, ObjectInv, Throw
<1> QED BY <1>1, ReturnKeeps DEF Throw

LEMMA RemoveKeeps ==
    ASSUME IInv, NEW w \in Workers, method_remove(w)
    PROVE  IInv' /\ KeepsSealed
<1> DEFINE p == call[w].path
<1>0. call[w].phase = "run" /\ call[w].op \in {"Remove", "FetchBackend"}
  BY DEF method_remove, Running
<1>1. p \in Paths /\ p # None /\ mem[p] # None /\ mem[p] \in Profile /\ call[w] # Idle /\ up
  BY <1>0, BusyWorker
<1>2. CASE p \notin live
  BY <1>0, <1>2, ThrowKeeps DEF method_remove
<1>3. CASE p \in live
  <2>1. /\ live' = live \ {p} /\ call' = [call EXCEPT ![w].phase = "unlink"]
        /\ UNCHANGED <<up, mem, file, calls, overlap, sealed, removed>>
    BY <1>3 DEF method_remove
  <2>2. TypeOK'
    BY <2>1 DEF IInv, TypeOK, Phases
  <2>3. /\ \A v \in Workers : /\ call'[v].path = call[v].path /\ call'[v].op = call[v].op
                              /\ v # w => call'[v] = call[v]
        /\ call'[w].phase = "unlink" /\ call'[w] # Idle
    BY <1>1, <2>1 DEF IInv, TypeOK, Idle
  <2>4. ObjectInv' /\ Alone' /\ SealedInv' /\ RemovedInv'
    BY <2>1, <2>3 DEF IInv, ProfileInv, ObjectInv, Alone, SealedInv, RemovedInv, Readable, Busy
  <2>5. WorkerInv'
    BY <1>0, <1>1, <2>1, <2>3 DEF IInv, ProfileInv, WorkerInv, Saving, ReadOps
  <2>6. p \notin overlap => \A v \in Workers \ {w} : call[v].path # p
    BY <1>1 DEF IInv, ProfileInv, Alone
  <2>7. CallInv'
    BY <1>0, <1>1, <2>1, <2>3, <2>6 DEF IInv, ProfileInv, CallInv, InFile, Readable, Saving
  <2>8. QuietInv'
    BY <2>1, <2>3 DEF IInv, ProfileInv, QuietInv, Busy, InFile, Readable
  <2>9. KeepsSealed
    BY <2>1 DEF KeepsSealed
  <2> QED BY <2>9, <2>2, <2>4, <2>5, <2>7, <2>8 DEF IInv, ProfileInv
<1> QED BY <1>2, <1>3

LEMMA UnlinkKeeps ==
    ASSUME IInv, NEW w \in Workers, Unlink(w)
    PROVE  IInv' /\ KeepsSealed
<1> DEFINE p == call[w].path
<1>0. /\ p \in Paths /\ p # None /\ mem[p] # None /\ mem[p] \in Profile /\ call[w] # Idle /\ up
      /\ call[w].phase = "unlink"
  BY BusyWorker DEF Unlink
<1>1. /\ file' = IF HasFile(mem[p]) THEN [file EXCEPT ![p] = None] ELSE file
      /\ removed' = removed \cup {p} /\ call' = [call EXCEPT ![w] = Idle]
      /\ UNCHANGED <<up, calls, overlap, live, mem, sealed>>
  BY DEF Unlink, Return
<1>2. TypeOK'
  BY <1>0, <1>1 DEF IInv, TypeOK, Phases, Operations, Idle
<1>3. /\ file'[p] = None /\ \A q \in Paths \ {p} : file'[q] = file[q]
      /\ \A v \in Workers \ {w} : call'[v] = call[v]
      /\ call'[w] = Idle /\ call'[w].path = None /\ call'[w].phase = "idle" /\ call'[w].op = "idle"
  BY <1>0, <1>1 DEF IInv, TypeOK, Idle, ProfileInv, ObjectInv
<1>4. ObjectInv'
  BY <1>0, <1>1, <1>3 DEF IInv, ProfileInv, ObjectInv, Readable
<1>5. WorkerInv'
  BY <1>0, <1>1, <1>3 DEF IInv, ProfileInv, WorkerInv, Saving, ReadOps
<1>6. p \notin overlap => p \notin live /\ \A v \in Workers \ {w} : call[v].path # p
  BY <1>0 DEF IInv, ProfileInv, Alone, CallInv
<1>7. Alone' /\ RemovedInv'
  <2>1. Alone'
    BY <1>1, <1>3, NoneAssumption DEF IInv, ProfileInv, Alone, TypeOK
  <2> SUFFICES ASSUME NEW q \in removed' \ overlap
               PROVE  q \notin live /\ file'[q] = None /\ ~Busy(q)'
    BY <1>1, <2>1 DEF RemovedInv
  <2>2. CASE q = p
    <3>1. \A v \in Workers : call'[v].path # p
      BY <1>0, <1>3, <1>6, <2>2
    <3> QED BY <1>3, <1>6, <2>2, <3>1 DEF Busy
  <2>3. CASE q # p
    <3>1. q \in removed /\ q \in Paths /\ ~Busy(q)
      BY <1>1, <2>3 DEF IInv, TypeOK, ProfileInv, RemovedInv
    <3>2. \A v \in Workers : call'[v].path # q
      BY <1>3, <3>1, NoneAssumption DEF Busy
    <3> QED BY <1>3, <2>3, <3>1, <3>2 DEF Busy, IInv, ProfileInv, RemovedInv
  <2> QED BY <2>2, <2>3
<1>8. CallInv'
  BY <1>0, <1>1, <1>3, <1>6, NoneAssumption DEF IInv, ProfileInv, CallInv, InFile, Readable, Saving
<1>9. QuietInv'
  <2> SUFFICES ASSUME NEW q \in live \ overlap, ~Busy(q)' PROVE InFile(q)'
    BY <1>1 DEF QuietInv
  <2>1. q # p /\ ~Busy(q) /\ q \in Paths
    BY <1>3, <1>6 DEF Busy, IInv, TypeOK
  <2> QED BY <1>1, <1>3, <2>1 DEF IInv, ProfileInv, QuietInv, InFile, Readable
<1>10. SealedInv'
  BY <1>0, <1>1, <1>3 DEF IInv, ProfileInv, SealedInv, Readable, TypeOK
<1>k. KeepsSealed
  BY <1>1 DEF KeepsSealed
<1> QED BY <1>k, <1>2, <1>4, <1>5, <1>7, <1>8, <1>9, <1>10 DEF IInv, ProfileInv

\* The file that could not be deleted holds what it held.
LEMMA UnlinkFailsKeeps ==
    ASSUME IInv, NEW w \in Workers, UnlinkFails(w)
    PROVE  IInv' /\ KeepsSealed
<1> DEFINE p == call[w].path
<1>0. p \in Paths /\ p # None /\ mem[p] # None /\ call[w] # Idle /\ up /\ call[w].phase = "unlink"
  BY BusyWorker DEF UnlinkFails
<1>1. call' = [call EXCEPT ![w] = Idle] /\ UNCHANGED <<up, calls, overlap, live, mem, file, sealed, removed>>
  BY DEF UnlinkFails, Return
<1>2. TypeOK'
  BY <1>0, <1>1 DEF IInv, TypeOK, Phases, Operations, Idle
<1>3. /\ \A v \in Workers \ {w} : call'[v] = call[v]
      /\ call'[w] = Idle /\ call'[w].path = None /\ call'[w].phase = "idle" /\ call'[w].op = "idle"
  BY <1>0, <1>1 DEF IInv, TypeOK, Idle
<1>4. ObjectInv'
  BY <1>1 DEF IInv, ProfileInv, ObjectInv, Readable
<1>5. WorkerInv'
  BY <1>0, <1>1, <1>3 DEF IInv, ProfileInv, WorkerInv, Saving, ReadOps
<1>6. p \notin overlap => p \notin live
  BY <1>0 DEF IInv, ProfileInv, CallInv
<1>7. Alone' /\ RemovedInv'
  BY <1>1, <1>3, NoneAssumption DEF IInv, ProfileInv, Alone, RemovedInv, Busy, TypeOK
<1>8. CallInv'
  BY <1>1, <1>3, NoneAssumption DEF IInv, ProfileInv, CallInv, InFile, Readable, Saving
<1>9. QuietInv'
  <2> SUFFICES ASSUME NEW q \in live \ overlap, ~Busy(q)' PROVE InFile(q)'
    BY <1>1 DEF QuietInv
  <2>1. q # p /\ ~Busy(q)
    BY <1>3, <1>6 DEF Busy
  <2> QED BY <1>1, <2>1 DEF IInv, ProfileInv, QuietInv, InFile, Readable
<1>10. SealedInv'
  BY <1>1 DEF IInv, ProfileInv, SealedInv, Readable
<1>k. KeepsSealed
  BY <1>1 DEF KeepsSealed
<1> QED BY <1>k, <1>2, <1>4, <1>5, <1>7, <1>8, <1>9, <1>10 DEF IInv, ProfileInv

-----------------------------------------------------------------------------
(* update_persistent_file() *)

LEMMA SaveOpenKeeps ==
    ASSUME IInv, NEW w \in Workers, SaveOpen(w)
    PROVE  IInv' /\ KeepsSealed
<1> DEFINE p == call[w].path
<1>0. /\ p \in Paths /\ p # None /\ mem[p] # None /\ mem[p] \in Profile /\ call[w] # Idle /\ up
      /\ call[w].phase = "save" /\ HasFile(mem[p])
  BY BusyWorker DEF SaveOpen, Obj
<1>1. /\ file' = [file EXCEPT ![p] = Broken] /\ call' = [call EXCEPT ![w].phase = "export"]
      /\ UNCHANGED <<up, live, mem, calls, overlap, sealed, removed>>
  BY DEF SaveOpen
<1>2. TypeOK'
  BY <1>0, <1>1 DEF IInv, TypeOK, Phases
<1>3. /\ file'[p] = Broken /\ \A q \in Paths \ {p} : file'[q] = file[q]
      /\ \A v \in Workers : /\ call'[v].path = call[v].path /\ call'[v].op = call[v].op
                            /\ v # w => call'[v] = call[v]
      /\ call'[w].phase = "export" /\ call'[w] # Idle
  BY <1>0, <1>1 DEF IInv, TypeOK, Idle
<1>4. ObjectInv'
  BY <1>0, <1>1, <1>3 DEF IInv, ProfileInv, ObjectInv, Readable
<1>5. WorkerInv'
  BY <1>0, <1>1, <1>3 DEF IInv, ProfileInv, WorkerInv, Saving, ReadOps
<1>6. p \notin overlap => \A v \in Workers \ {w} : call[v].path # p
  BY <1>0 DEF IInv, ProfileInv, Alone
<1>7. Alone' /\ RemovedInv'
  BY <1>0, <1>1, <1>3 DEF IInv, ProfileInv, Alone, RemovedInv, Busy, TypeOK
<1>8. CallInv'
  BY <1>0, <1>1, <1>3, <1>6 DEF IInv, ProfileInv, CallInv, InFile, Readable, Saving
<1>9. QuietInv'
  BY <1>0, <1>1, <1>3 DEF IInv, ProfileInv, QuietInv, Busy, InFile, Readable, TypeOK
<1>10. SealedInv'
  BY <1>0, <1>1, <1>3 DEF IInv, ProfileInv, SealedInv, Readable, TypeOK
<1>k. KeepsSealed
  BY <1>1 DEF KeepsSealed
<1> QED BY <1>k, <1>2, <1>4, <1>5, <1>7, <1>8, <1>9, <1>10 DEF IInv, ProfileInv

LEMMA SaveExportKeeps ==
    ASSUME IInv, NEW w \in Workers, SaveExport(w)
    PROVE  IInv' /\ KeepsSealed
<1> DEFINE p == call[w].path
<1>0. /\ p \in Paths /\ p # None /\ mem[p] # None /\ mem[p] \in Profile /\ call[w] # Idle /\ up
      /\ call[w].phase = "export" /\ Checked(mem[p])
  BY BusyWorker DEF SaveExport, IInv, ProfileInv, ObjectInv
<1>1. UNCHANGED <<up, live, mem, file, calls, overlap, sealed, removed>>
  BY DEF SaveExport
<1>c. call' = [call EXCEPT ![w].phase = "flush", ![w].snap = Export(mem[p])]
  BY DEF SaveExport, Obj
<1>2. Export(mem[p]) \in SavedProfile /\ Checked(Export(mem[p])) /\ Export(mem[p]) # None
  BY <1>0, ExportFacts, NoneAssumption
<1>3. TypeOK'
  BY <1>0, <1>1, <1>c, <1>2 DEF IInv, TypeOK, Phases
<1>4. /\ \A v \in Workers : /\ call'[v].path = call[v].path /\ call'[v].op = call[v].op
                            /\ v # w => call'[v] = call[v]
      /\ call'[w].phase = "flush" /\ call'[w].snap = Export(mem[p]) /\ call'[w] # Idle
  BY <1>0, <1>c DEF IInv, TypeOK, Idle
<1>5. ObjectInv' /\ SealedInv'
  BY <1>1 DEF IInv, ProfileInv, ObjectInv, SealedInv, Readable
<1>6. WorkerInv'
  BY <1>0, <1>1, <1>2, <1>4 DEF IInv, ProfileInv, WorkerInv, Saving, ReadOps
<1>7. Alone' /\ RemovedInv'
  BY <1>1, <1>4 DEF IInv, ProfileInv, Alone, RemovedInv, Busy
<1>8. CallInv'
  BY <1>0, <1>1, <1>4 DEF IInv, ProfileInv, CallInv, InFile, Readable, Saving
<1>9. QuietInv'
  BY <1>1, <1>4 DEF IInv, ProfileInv, QuietInv, Busy, InFile, Readable
<1>k. KeepsSealed
  BY <1>1 DEF KeepsSealed
<1> QED BY <1>k, <1>3, <1>5, <1>6, <1>7, <1>8, <1>9 DEF IInv, ProfileInv

\* The call of w is answered after its save, or after a save that had nothing to write.
LEMMA AnsweredKeeps ==
    ASSUME IInv, NEW w \in Workers, Answered(w), call[w].phase \in Saving,
           NEW s \in SavedProfile \cup {None, Broken}, file' = [file EXCEPT ![call[w].path] = s],
           s # None => HasFile(mem[call[w].path]),
           s \notin {None, Broken} => Checked(s),
           call[w].path \notin overlap => \/ ~HasFile(mem[call[w].path]) /\ s = None
                                          \/ s = Export(mem[call[w].path])
    PROVE  IInv' /\ KeepsSealed
<1> DEFINE p == call[w].path
<1>0. /\ p \in Paths /\ p # None /\ mem[p] # None /\ mem[p] \in Profile /\ call[w] # Idle /\ up
      /\ Checked(mem[p])
  BY BusyWorker DEF IInv, ProfileInv, ObjectInv, Saving
<1>1. /\ live' = IF call[w].op = "Import" THEN live \cup {p} ELSE live
      /\ sealed' = IF call[w].op = "Seal" THEN sealed \cup {p} ELSE sealed
      /\ call' = [call EXCEPT ![w] = Idle]
      /\ UNCHANGED <<up, calls, overlap, mem, removed>>
  BY DEF Answered, Return
<1>2. TypeOK'
  BY <1>0, <1>1 DEF IInv, TypeOK, Phases, Operations, Idle
<1>3. /\ file'[p] = s /\ \A q \in Paths \ {p} : file'[q] = file[q]
      /\ \A v \in Workers \ {w} : call'[v] = call[v]
      /\ call'[w] = Idle /\ call'[w].path = None /\ call'[w].phase = "idle" /\ call'[w].op = "idle"
  BY <1>0, <1>1 DEF IInv, TypeOK, Idle
<1>4. ObjectInv'
  BY <1>0, <1>1, <1>3 DEF IInv, ProfileInv, ObjectInv, Readable, TypeOK
<1>5. WorkerInv'
  BY <1>0, <1>1, <1>3 DEF IInv, ProfileInv, WorkerInv, Saving, ReadOps
<1>6. /\ p \notin overlap => p \notin removed /\ \A v \in Workers \ {w} : call[v].path # p
      /\ p \notin overlap /\ call[w].op = "Seal" => mem[p].readonly
  BY <1>0 DEF IInv, ProfileInv, Alone, CallInv, RemovedInv, Busy
<1>7. Alone'
  BY <1>1, <1>3, NoneAssumption DEF IInv, ProfileInv, Alone, TypeOK
<1>8. RemovedInv'
  <2> SUFFICES ASSUME NEW q \in removed \ overlap
               PROVE  q \notin live' /\ file'[q] = None /\ ~Busy(q)'
    BY <1>1 DEF RemovedInv
  <2>1. q # p /\ q \in Paths /\ ~Busy(q) /\ q \notin live /\ file[q] = None
    BY <1>6 DEF IInv, TypeOK, ProfileInv, RemovedInv
  <2>2. \A v \in Workers : call'[v].path # q
    BY <1>3, <2>1, NoneAssumption DEF Busy
  <2> QED BY <1>1, <1>3, <2>1, <2>2 DEF Busy
<1>9. CallInv'
  BY <1>0, <1>1, <1>3, <1>6, NoneAssumption DEF IInv, ProfileInv, CallInv, InFile, Readable, Saving
<1>10. QuietInv'
  <2> SUFFICES ASSUME NEW q \in live' \ overlap, ~Busy(q)' PROVE InFile(q)'
    BY <1>1 DEF QuietInv
  <2>1. CASE q = p
    <3>1. s = Export(mem[p]) => s \in SavedProfile /\ Agree(s, mem[p])
      BY <1>0, ExportFacts
    <3> QED BY <1>1, <1>3, <2>1, <3>1, NoneAssumption DEF InFile, Readable
  <2>2. CASE q # p
    <3>1. q \in live /\ q \in Paths /\ ~Busy(q)
      BY <1>1, <1>3, <2>2 DEF Busy, IInv, TypeOK
    <3> QED BY <1>1, <1>3, <2>2, <3>1 DEF IInv, ProfileInv, QuietInv, InFile, Readable
  <2> QED BY <2>1, <2>2
<1>11. SealedInv'
  <2> SUFFICES ASSUME NEW q \in sealed' \ overlap
               PROVE  /\ mem[q].readonly
                      /\ Readable(q)' => file'[q].readonly /\ Frozen(file'[q]) = Frozen(mem[q])
    BY <1>1 DEF SealedInv
  <2>1. CASE q = p
    <3>1. mem[p].readonly
      BY <1>1, <1>6, <2>1 DEF IInv, ProfileInv, SealedInv
    <3>2. s = Export(mem[p]) => s.readonly = mem[p].readonly /\ Frozen(s) = Frozen(mem[p])
      BY <1>0, ExportFacts
    <3> QED BY <1>3, <2>1, <3>1, <3>2 DEF Readable
  <2>2. CASE q # p
    BY <1>1, <1>3, <2>2 DEF IInv, TypeOK, ProfileInv, SealedInv, Readable
  <2> QED BY <2>1, <2>2
<1>k. KeepsSealed
  BY <1>1 DEF KeepsSealed
<1> QED BY <1>k, <1>2, <1>4, <1>5, <1>7, <1>8, <1>9, <1>10, <1>11 DEF IInv, ProfileInv

LEMMA SaveFlushKeeps ==
    ASSUME IInv, NEW w \in Workers, SaveFlush(w)
    PROVE  IInv' /\ KeepsSealed
<1> DEFINE p == call[w].path
<1>1. /\ call[w].phase = "flush" /\ file' = [file EXCEPT ![p] = call[w].snap] /\ Answered(w)
      /\ p \in Paths
  BY BusyWorker DEF SaveFlush
<1>2. /\ call[w].snap \in SavedProfile /\ Checked(call[w].snap) /\ HasFile(mem[p])
      /\ p \notin overlap => call[w].snap = Export(mem[p])
  BY <1>1 DEF IInv, TypeOK, ProfileInv, WorkerInv, CallInv
<1> QED BY <1>1, <1>2, AnsweredKeeps DEF Saving

LEMMA SaveNothingKeeps ==
    ASSUME IInv, NEW w \in Workers, SaveNothing(w)
    PROVE  IInv' /\ KeepsSealed
<1> DEFINE p == call[w].path
<1>1. /\ call[w].phase = "save" /\ ~HasFile(mem[p]) /\ file' = file /\ Answered(w)
      /\ p \in Paths
  BY BusyWorker DEF SaveNothing, Obj
<1>2. file[p] = None /\ file' = [file EXCEPT ![p] = None]
  BY <1>1 DEF IInv, TypeOK, ProfileInv, ObjectInv
<1> QED BY <1>1, <1>2, AnsweredKeeps DEF Saving

-----------------------------------------------------------------------------
(* Calls arrive *)

LEMMA BeginKeeps ==
    ASSUME IInv, NEW w \in Workers, NEW p \in live, NEW m \in Operations \ {"idle", "Import"},
           mem[p].readonly => m \in SealedOps, Begin(w, p, m)
    PROVE  IInv' /\ KeepsSealed
<1>0. p \in Paths /\ p # None /\ mem[p] # None /\ up /\ call[w] = Idle
  BY NoneAssumption DEF IInv, TypeOK, ProfileInv, ObjectInv, Begin
<1>1. /\ calls' = calls + 1 /\ calls < MaxCalls
      /\ overlap' = IF Busy(p) THEN overlap \cup {p} ELSE overlap
      /\ call' = [call EXCEPT ![w] = [op |-> m, path |-> p, phase |-> "run", snap |-> None]]
      /\ UNCHANGED <<up, live, mem, file, sealed, removed>>
  BY DEF Begin
<1>2. TypeOK'
  BY <1>0, <1>1, MaxCallsAssumption DEF IInv, TypeOK, Phases
<1>3. /\ \A v \in Workers \ {w} : call'[v] = call[v]
      /\ call'[w].op = m /\ call'[w].path = p /\ call'[w].phase = "run" /\ call'[w] # Idle
  BY <1>0, <1>1 DEF IInv, TypeOK, Idle
<1>4. overlap \subseteq overlap' /\ (p \notin overlap' => p \notin overlap /\ \A v \in Workers : call[v].path # p)
  BY <1>1 DEF Busy
<1>5. ObjectInv' /\ SealedInv'
  BY <1>1, <1>4 DEF IInv, ProfileInv, ObjectInv, SealedInv, Readable
<1>6. WorkerInv'
  BY <1>0, <1>1, <1>3 DEF IInv, ProfileInv, WorkerInv, Saving, ReadOps
<1>7. Alone'
  BY <1>3, <1>4 DEF IInv, ProfileInv, Alone
<1>8. RemovedInv' /\ QuietInv'
  <2>1. RemovedInv'
    BY <1>0, <1>1, <1>3, <1>4 DEF IInv, ProfileInv, RemovedInv, Busy
  <2> SUFFICES ASSUME NEW q \in live \ overlap', ~Busy(q)' PROVE InFile(q)'
    BY <1>1, <2>1 DEF QuietInv
  <2>2. q \notin overlap /\ \A v \in Workers : call[v].path # q
    BY <1>0, <1>3, <1>4, NoneAssumption DEF Busy, Idle, IInv, TypeOK
  <2> QED BY <1>1, <2>2 DEF IInv, ProfileInv, QuietInv, InFile, Readable, Busy
<1>9. CallInv'
  <2> SUFFICES ASSUME NEW v \in Workers, call'[v].path \in Paths \ overlap'
               PROVE  LET q == call'[v].path IN
                      /\ call'[v].phase = "run" => q \in live /\ InFile(q)
                      /\ call'[v].phase \in Saving /\ call'[v].op # "Import" => q \in live
                      /\ call'[v].phase = "flush" => call'[v].snap = Export(mem[q])
                      /\ call'[v].phase = "unlink" => q \notin live
                      /\ call'[v].phase \in Saving /\ call'[v].op = "Seal" => mem[q].readonly
                      /\ q \in sealed => call'[v].op \in SealedOps
    BY <1>1 DEF CallInv, InFile, Readable
  <2>1. CASE v = w
    <3>1. InFile(p) /\ (p \in sealed => mem[p].readonly)
      BY <1>3, <1>4, <2>1 DEF IInv, ProfileInv, QuietInv, SealedInv, Busy
    <3> QED BY <1>3, <2>1, <3>1 DEF Saving
  <2>2. CASE v # w
    BY <1>3, <1>4, <2>2 DEF IInv, ProfileInv, CallInv
  <2> QED BY <2>1, <2>2
<1>10. KeepsSealed
  BY <1>1 DEF KeepsSealed
<1> QED BY <1>2, <1>5, <1>6, <1>7, <1>8, <1>9, <1>10 DEF IInv, ProfileInv

LEMMA CallKeeps ==
    ASSUME IInv, NEW w \in Workers, NEW p \in Paths,
           \/ \E uid \in Users, m \in Methods : Call(w, p, uid, m)
           \/ \E uid \in Users : CallTransferOwnership(w, p, uid)
           \/ CallFetchBackend(w, p)
    PROVE  IInv' /\ KeepsSealed
<1>1. CASE \E uid \in Users, m \in Methods : Call(w, p, uid, m)
  <2>1. PICK uid \in Users, m \in Methods : Call(w, p, uid, m)
    BY <1>1
  <2>2. p \in live /\ Begin(w, p, m) /\ Authorize(mem[p], uid, m)
    BY <2>1 DEF Call
  <2>3. m \in Operations \ {"idle", "Import"}
    BY DEF Operations, Methods, write_methods, owner_properties, other_properties
  <2>4. mem[p].readonly => m \in SealedOps
    BY <2>2 DEF Authorize, SealedOps
  <2> QED BY <2>2, <2>3, <2>4, BeginKeeps
<1>2. CASE \E uid \in Users : CallTransferOwnership(w, p, uid)
  BY <1>2, BeginKeeps DEF CallTransferOwnership, SealedOps, Operations
<1>3. CASE CallFetchBackend(w, p)
  BY <1>3, BeginKeeps DEF CallFetchBackend, SealedOps, Operations
<1> QED BY <1>1, <1>2, <1>3

LEMMA ImportKeeps ==
    ASSUME IInv, NEW w \in Workers, NEW p \in Paths, NEW uid \in Users, NEW opts \in Contents,
           NEW single \in BOOLEAN, NEW persistent \in BOOLEAN,
           method_import(w, p, uid, opts, single, persistent)
    PROVE  IInv' /\ KeepsSealed
<1> DEFINE r == NewProfile(uid, opts, single, persistent)
<1>0. r \in Profile /\ Checked(r) /\ r # None /\ p # None
  BY NewProfileFacts, NoneAssumption
<1> HIDE DEF r
<1>1. /\ up /\ call[w] = Idle /\ calls < MaxCalls /\ mem[p] = None /\ file[p] = None
      /\ calls' = calls + 1
      /\ mem' = [mem EXCEPT ![p] = r]
      /\ call' = [call EXCEPT ![w] = [op |-> "Import", path |-> p, phase |-> "save", snap |-> None]]
      /\ UNCHANGED <<up, live, file, overlap, sealed, removed>>
  BY DEF method_import, r
<1>2. TypeOK'
  BY <1>0, <1>1, MaxCallsAssumption DEF IInv, TypeOK, Phases, Operations
<1>3. /\ mem'[p] = r /\ \A q \in Paths \ {p} : mem'[q] = mem[q]
      /\ \A v \in Workers \ {w} : call'[v] = call[v]
      /\ call'[w].op = "Import" /\ call'[w].path = p /\ call'[w].phase = "save" /\ call'[w] # Idle
  BY <1>0, <1>1 DEF IInv, TypeOK, Idle
<1>4. p \notin live /\ p \notin removed /\ p \notin sealed /\ \A v \in Workers : call[v].path # p
  BY <1>0, <1>1 DEF IInv, ProfileInv, ObjectInv, WorkerInv, Idle
<1>5. ObjectInv'
  BY <1>0, <1>1, <1>3 DEF IInv, ProfileInv, ObjectInv, Readable, TypeOK
<1>6. WorkerInv'
  BY <1>0, <1>1, <1>3, <1>4 DEF IInv, ProfileInv, WorkerInv, Saving, ReadOps
<1>7. Alone' /\ RemovedInv' /\ SealedInv'
  BY <1>1, <1>3, <1>4 DEF IInv, ProfileInv, Alone, RemovedInv, SealedInv, Busy, Readable, TypeOK
<1>8. QuietInv'
  <2> SUFFICES ASSUME NEW q \in live \ overlap, ~Busy(q)' PROVE InFile(q)'
    BY <1>1 DEF QuietInv
  <2>2. q # p /\ q \in Paths /\ \A v \in Workers : call[v].path # q
    BY <1>1, <1>3, <1>4, NoneAssumption DEF Busy, Idle, IInv, TypeOK
  <2> QED BY <1>1, <1>3, <2>2 DEF IInv, ProfileInv, QuietInv, InFile, Readable, Busy
<1>9. CallInv'
  BY <1>1, <1>3, <1>4 DEF IInv, ProfileInv, CallInv, InFile, Readable, Saving
<1>10. KeepsSealed
  BY <1>1, <1>3, <1>4 DEF KeepsSealed, IInv, TypeOK
<1> QED BY <1>2, <1>5, <1>6, <1>7, <1>8, <1>9, <1>10 DEF IInv, ProfileInv

-----------------------------------------------------------------------------
(* The process *)

LEMMA StopKeeps ==
    ASSUME IInv, Stop
    PROVE  IInv' /\ KeepsSealed
<1>1. /\ ~up' /\ up' \in BOOLEAN /\ live' = {} /\ call' = [w \in Workers |-> Idle]
      /\ UNCHANGED <<mem, file, calls, overlap, sealed, removed>>
  BY DEF Stop
<1>2. TypeOK'
  BY <1>1 DEF IInv, TypeOK, Phases, Operations, Idle
<1>3. \A v \in Workers : /\ call'[v] = Idle /\ call'[v].path = None
                         /\ call'[v].phase = "idle" /\ call'[v].op = "idle"
  BY <1>1 DEF Idle
<1>4. ObjectInv' /\ SealedInv' /\ QuietInv' /\ KeepsSealed
  BY <1>1 DEF IInv, ProfileInv, ObjectInv, SealedInv, QuietInv, Readable, KeepsSealed
<1>5. WorkerInv' /\ CallInv' /\ Alone'
  BY <1>1, <1>3, NoneAssumption DEF WorkerInv, CallInv, Alone, ReadOps, Saving
<1>6. RemovedInv'
  BY <1>1, <1>3, NoneAssumption DEF IInv, TypeOK, ProfileInv, RemovedInv, Busy
<1> QED BY <1>2, <1>4, <1>5, <1>6 DEF IInv, ProfileInv

LEMMA StartKeeps ==
    ASSUME IInv, Start
    PROVE  IInv' /\ KeepsSealed
<1> DEFINE good == {p \in Paths : file[p] \notin {None, Broken}}
<1>1. /\ ~up /\ up' = TRUE /\ live' = good
      /\ mem' = [p \in Paths |-> IF p \in good THEN Load(file[p]) ELSE mem[p]]
      /\ UNCHANGED <<file, call, calls, overlap, sealed, removed>>
  BY DEF Start
<1>2. \A p \in good : /\ mem'[p] = Load(file[p]) /\ file[p] \in SavedProfile
                      /\ Load(file[p]) \in Profile /\ Load(file[p]).persistent /\ StateDir
                      /\ Agree(file[p], Load(file[p])) /\ Checked(Load(file[p]))
                      /\ Load(file[p]).readonly = file[p].readonly
                      /\ Frozen(Load(file[p])) = Frozen(file[p])
  <2> SUFFICES ASSUME NEW p \in good
               PROVE  /\ mem'[p] = Load(file[p]) /\ file[p] \in SavedProfile
                      /\ Load(file[p]) \in Profile /\ Load(file[p]).persistent /\ StateDir
                      /\ Agree(file[p], Load(file[p])) /\ Checked(Load(file[p]))
                      /\ Load(file[p]).readonly = file[p].readonly
                      /\ Frozen(Load(file[p])) = Frozen(file[p])
    OBVIOUS
  <2>1. file[p] \in SavedProfile /\ Checked(file[p]) /\ StateDir
    BY DEF IInv, TypeOK, ProfileInv, ObjectInv, Readable, HasFile
  <2> QED BY <1>1, <2>1, LoadFacts
<1>3. \A p \in Paths \ good : mem'[p] = mem[p]
  BY <1>1
<1>4. \A v \in Workers : /\ call'[v] = Idle /\ call'[v].path = None
                         /\ call'[v].phase = "idle" /\ call'[v].op = "idle"
  BY <1>1 DEF IInv, ProfileInv, WorkerInv, Idle
<1>5. TypeOK'
  BY <1>1, <1>2, <1>3 DEF IInv, TypeOK
<1>6. ObjectInv'
  <2>1. \A p \in Paths : mem[p] # None => mem'[p] # None
    BY <1>2, <1>3, NoneAssumption
  <2>2. \A p \in Paths : file[p] # None => mem'[p] # None /\ HasFile(mem'[p])
    BY <1>2, <1>3, <2>1 DEF IInv, ProfileInv, ObjectInv, HasFile
  <2>3. \A p \in good : mem'[p] # None
    BY <2>2
  <2>4. \A p \in Paths : mem'[p] # None => Checked(mem'[p])
    BY <1>2, <1>3 DEF IInv, ProfileInv, ObjectInv
  <2> QED BY <1>1, <2>1, <2>2, <2>3, <2>4 DEF IInv, TypeOK, ProfileInv, ObjectInv, Readable
<1>7. WorkerInv' /\ CallInv' /\ Alone'
  BY <1>1, <1>4, NoneAssumption DEF WorkerInv, CallInv, Alone, ReadOps, Saving
<1>8. QuietInv'
  BY <1>1, <1>2 DEF QuietInv, InFile, Readable
<1>9. RemovedInv'
  BY <1>1, <1>4, NoneAssumption DEF IInv, TypeOK, ProfileInv, RemovedInv, Busy
<1>10. SealedInv' /\ KeepsSealed
  BY <1>1, <1>2, <1>3 DEF IInv, TypeOK, ProfileInv, SealedInv, KeepsSealed, Readable
<1> QED BY <1>5, <1>6, <1>7, <1>8, <1>9, <1>10 DEF IInv, ProfileInv

-----------------------------------------------------------------------------
(* The handlers: each ends in one of the steps above.  The object a handler *)
(* writes keeps its "persistent" property and the validity of its options.  *)

LEMMA HandlerObject ==
    ASSUME IInv, NEW w \in Workers, call[w].phase = "run"
    PROVE  /\ Obj(w) \in Profile /\ Checked(Obj(w)) /\ Obj(w) = mem[call[w].path]
           /\ \A u \in Users : CanGrant(Obj(w).acl, u) => GrantAccess(Obj(w).acl, u) \in ACLRecord(Users)
           /\ \A u \in Users : RevokeAccess(Obj(w).acl, u) \in ACLRecord(Users)
           /\ \A u \in Users : TransferOwnership(Obj(w).acl, u) \in ACLRecord(Users)
           /\ \A u \in Users : /\ TransferOwnership(Obj(w).acl, u).acl = Obj(w).acl.acl
                               /\ TransferOwnership(Obj(w).acl, u).public = Obj(w).acl.public
           /\ SetPublicAccess(Obj(w).acl, ~Obj(w).acl.public) \in ACLRecord(Users)
<1>1. Obj(w) \in Profile /\ Checked(Obj(w)) /\ Obj(w) = mem[call[w].path]
  BY BusyWorker DEF Obj, IInv, ProfileInv, ObjectInv
<1>2. Obj(w).acl \in ACLRecord(Users)
  BY <1>1 DEF Profile
<1> QED BY <1>1, <1>2 DEF ACLRecord, GrantAccess, RevokeAccess, TransferOwnership, SetPublicAccess

LEMMA AccessKeeps ==
    ASSUME IInv, NEW w \in Workers, method_access_grant(w) \/ method_access_revoke(w)
    PROVE  IInv' /\ KeepsSealed
<1>1. call[w].phase = "run" /\ call[w].op \in {"AccessGrant", "AccessRevoke"}
  BY DEF method_access_grant, method_access_revoke, Running
<1>2. CASE Throw(w)
  BY <1>1, <1>2, ThrowKeeps
<1>3. CASE ~Throw(w)
  <2>1. PICK a \in ACLRecord(Users) : Commit(w, [Obj(w) EXCEPT !.acl = a])
    BY <1>1, <1>3, HandlerObject DEF method_access_grant, method_access_revoke, Profile
  <2> DEFINE r == [Obj(w) EXCEPT !.acl = a]
  <2>2. r \in Profile /\ Checked(r) /\ HasFile(r) = HasFile(Obj(w)) /\ r.readonly = Obj(w).readonly
    BY <1>1, HandlerObject DEF Profile, Checked, HasFile
  <2> QED BY <1>1, <2>1, <2>2, HandlerObject, CommitKeeps DEF ReadOps, SealedOps
<1> QED BY <1>2, <1>3

LEMMA TagKeeps ==
    ASSUME IInv, NEW w \in Workers, method_add_tag(w) \/ method_remove_tag(w)
    PROVE  IInv' /\ KeepsSealed
<1>1. call[w].phase = "run" /\ call[w].op \in {"AddTag", "RemoveTag"}
  BY DEF method_add_tag, method_remove_tag, Running
<1>2. CASE Throw(w)
  BY <1>1, <1>2, ThrowKeeps
<1>3. CASE ~Throw(w)
  <2>1. PICK tt \in SUBSET Tags : Commit(w, [Obj(w) EXCEPT !.tags = tt])
    <3>1. Obj(w) \in Profile /\ Obj(w).tags \in SUBSET Tags
      BY <1>1, HandlerObject DEF Profile
    <3>2. CASE method_add_tag(w)
      BY <1>3, <3>1, <3>2 DEF method_add_tag
    <3>3. CASE method_remove_tag(w)
      BY <1>3, <3>1, <3>3 DEF method_remove_tag
    <3> QED BY <3>2, <3>3
  <2> DEFINE r == [Obj(w) EXCEPT !.tags = tt]
  <2>2. r \in Profile /\ Checked(r) /\ HasFile(r) = HasFile(Obj(w)) /\ r.readonly = Obj(w).readonly
    BY <1>1, HandlerObject DEF Profile, Checked, HasFile
  <2> QED BY <1>1, <2>1, <2>2, HandlerObject, CommitKeeps DEF ReadOps, SealedOps
<1> QED BY <1>2, <1>3

LEMMA OverrideKeeps ==
    ASSUME IInv, NEW w \in Workers, method_set_override(w) \/ method_unset_override(w)
    PROVE  IInv' /\ KeepsSealed
<1>1. call[w].phase = "run" /\ call[w].op \in {"SetOverride", "UnsetOverride"}
  BY DEF method_set_override, method_unset_override, Running
<1>2. Obj(w) \in Profile /\ Obj(w).overrides \in SUBSET Keys /\ Obj(w) = mem[call[w].path]
  BY <1>1, HandlerObject DEF Profile
<1>3. ASSUME NEW oo \in SUBSET Keys
      PROVE  LET r == [Obj(w) EXCEPT !.overrides = oo] IN
             r \in Profile /\ Checked(r) /\ HasFile(r) = HasFile(Obj(w)) /\ r.readonly = Obj(w).readonly
  BY <1>1, HandlerObject DEF Profile, Checked, HasFile
<1>4. CASE Throw(w)
  BY <1>1, <1>4, ThrowKeeps
<1>5. CASE \E oo \in SUBSET Keys : Commit(w, [Obj(w) EXCEPT !.overrides = oo])
  <2>1. PICK oo \in SUBSET Keys : Commit(w, [Obj(w) EXCEPT !.overrides = oo])
    BY <1>5
  <2> QED BY <1>1, <1>2, <1>3, <2>1, CommitKeeps DEF ReadOps, SealedOps
<1>6. CASE /\ Return(w) /\ UNCHANGED <<live, file, sealed, removed>>
           /\ \E k \in Keys : mem' = [mem EXCEPT ![call[w].path].overrides = @ \ {k}]
  <2>1. PICK k \in Keys : mem' = [mem EXCEPT ![call[w].path].overrides = @ \ {k}]
    BY <1>6
  <2> DEFINE r == [Obj(w) EXCEPT !.overrides = Obj(w).overrides \ {k}]
  <2>2. mem' = [mem EXCEPT ![call[w].path] = r]
    BY <1>2, <2>1
  <2>3. /\ r \in Profile /\ Checked(r) /\ HasFile(r) = HasFile(Obj(w)) /\ r.readonly = Obj(w).readonly
        /\ Agree(file[call[w].path], Obj(w)) => Agree(file[call[w].path], r)
    BY <1>2, <1>3 DEF Agree, Profile
  <2> QED BY <1>1, <1>2, <1>6, <2>2, <2>3, ReturnKeeps DEF SealedOps
<1>7. CASE method_set_override(w)
  BY <1>2, <1>4, <1>5, <1>6, <1>7 DEF method_set_override
<1>8. CASE method_unset_override(w)
  BY <1>2, <1>4, <1>5, <1>8 DEF method_unset_override
<1> QED BY <1>7, <1>8

\* SetProperty, TransferOwnership, Seal and the Fetch of a VPN client.
LEMMA ChangeKeeps ==
    ASSUME IInv, NEW w \in Workers,
           SetProperty(w) \/ TransferOwner(w) \/ method_seal(w) \/ FetchBackend(w)
    PROVE  IInv' /\ KeepsSealed
<1>1. call[w].phase = "run" /\ call[w].op \notin ReadOps
  BY DEF SetProperty, TransferOwner, method_seal, FetchBackend, Running, ReadOps
<1>2. /\ Obj(w) \in Profile /\ Checked(Obj(w)) /\ Obj(w) = mem[call[w].path]
      /\ Obj(w).name \in BOOLEAN /\ Obj(w).locked \in BOOLEAN /\ Obj(w).dco \in BOOLEAN
      /\ Obj(w).transfer \in BOOLEAN
      /\ Obj(w).used \in Nat /\ Obj(w).readonly \in BOOLEAN
  BY <1>1, HandlerObject DEF Profile
<1>3. CASE SetProperty(w)
  <2>1. PICK r \in Profile : /\ Commit(w, r) /\ Checked(r) /\ r.readonly = Obj(w).readonly
                             /\ HasFile(r) = HasFile(Obj(w))
    <3>1. CASE Running(w, "name") /\ Commit(w, [Obj(w) EXCEPT !.name = ~@])
      <4> DEFINE r == [Obj(w) EXCEPT !.name = ~@]
      <4>1. r \in Profile /\ Checked(r) /\ r.readonly = Obj(w).readonly /\ HasFile(r) = HasFile(Obj(w))
        BY <1>2 DEF Profile, Checked, HasFile
      <4> QED BY <3>1, <4>1
    <3>2. CASE Running(w, "locked_down") /\ Commit(w, [Obj(w) EXCEPT !.locked = ~@])
      <4> DEFINE r == [Obj(w) EXCEPT !.locked = ~@]
      <4>1. r \in Profile /\ Checked(r) /\ r.readonly = Obj(w).readonly /\ HasFile(r) = HasFile(Obj(w))
        BY <1>2 DEF Profile, Checked, HasFile
      <4> QED BY <3>2, <4>1
    <3>3. CASE Running(w, "dco") /\ Commit(w, [Obj(w) EXCEPT !.dco = ~@])
      <4> DEFINE r == [Obj(w) EXCEPT !.dco = ~@]
      <4>1. r \in Profile /\ Checked(r) /\ r.readonly = Obj(w).readonly /\ HasFile(r) = HasFile(Obj(w))
        BY <1>2 DEF Profile, Checked, HasFile
      <4> QED BY <3>3, <4>1
    <3>4. CASE /\ Running(w, "public_access")
               /\ Commit(w, [Obj(w) EXCEPT !.acl = SetPublicAccess(@, ~@.public)])
      <4> DEFINE r == [Obj(w) EXCEPT !.acl = SetPublicAccess(Obj(w).acl, ~Obj(w).acl.public)]
      <4>1. r \in Profile /\ Checked(r) /\ r.readonly = Obj(w).readonly /\ HasFile(r) = HasFile(Obj(w))
        BY <1>1, <1>2, HandlerObject DEF Profile, Checked, HasFile
      <4> QED BY <3>4, <4>1
    <3>5. CASE Running(w, "transfer_owner_session") /\ Commit(w, [Obj(w) EXCEPT !.transfer = ~@])
      <4> DEFINE r == [Obj(w) EXCEPT !.transfer = ~@]
      <4>1. r \in Profile /\ Checked(r) /\ r.readonly = Obj(w).readonly /\ HasFile(r) = HasFile(Obj(w))
        BY <1>2 DEF Profile, Checked, HasFile
      <4> QED BY <3>5, <4>1
    <3> QED BY <1>3, <3>1, <3>2, <3>3, <3>4, <3>5 DEF SetProperty
  <2>2. call[w].op \notin SealedOps /\ call[w].op # "Seal"
    BY <1>3 DEF SetProperty, Running, SealedOps
  <2> QED BY <1>1, <1>2, <2>1, <2>2, CommitKeeps
<1>4. CASE TransferOwner(w)
  <2>1. PICK uid \in Users : Commit(w, [Obj(w) EXCEPT !.acl = TransferOwnership(Obj(w).acl, uid)])
    BY <1>2, <1>4 DEF TransferOwner
  <2> DEFINE r == [Obj(w) EXCEPT !.acl = TransferOwnership(Obj(w).acl, uid)]
  <2>2. /\ r \in Profile /\ Checked(r) /\ r.readonly = Obj(w).readonly /\ HasFile(r) = HasFile(Obj(w))
        /\ Frozen(r) = Frozen(Obj(w))
    BY <1>1, <1>2, HandlerObject DEF Profile, Checked, HasFile, Frozen
  <2>3. call[w].op # "Seal"
    BY <1>4 DEF TransferOwner, Running
  <2> QED BY <1>1, <1>2, <2>1, <2>2, <2>3, CommitKeeps
<1>5. CASE method_seal(w) /\ Throw(w)
  BY <1>1, <1>5, ThrowKeeps
<1>6. CASE method_seal(w) /\ ~Throw(w)
  <2> DEFINE r == [Obj(w) EXCEPT !.readonly = TRUE]
  <2>1. Commit(w, r)
    BY <1>6 DEF method_seal
  <2>2. r \in Profile /\ Checked(r) /\ r.readonly /\ HasFile(r) = HasFile(Obj(w)) /\ Frozen(r) = Frozen(Obj(w))
    BY <1>2 DEF Profile, Checked, HasFile, Frozen
  <2> QED BY <1>1, <1>2, <2>1, <2>2, CommitKeeps
<1>7. CASE FetchBackend(w)
  <2> DEFINE r == [Obj(w) EXCEPT !.used = Obj(w).used + 1]
  <2>1. Commit(w, r) /\ call[w].op # "Seal"
    BY <1>2, <1>7 DEF FetchBackend, Running
  <2>2. /\ r \in Profile /\ Checked(r) /\ r.readonly = Obj(w).readonly
        /\ HasFile(r) = HasFile(Obj(w)) /\ Frozen(r) = Frozen(Obj(w))
    BY <1>2 DEF Profile, Checked, HasFile, Frozen
  <2> QED BY <1>1, <1>2, <2>1, <2>2, CommitKeeps
<1> QED BY <1>3, <1>4, <1>5, <1>6, <1>7

LEMMA HandlerKeeps ==
    ASSUME IInv, NEW w \in Workers, Handler(w)
    PROVE  IInv' /\ KeepsSealed
<1>1. CASE ReadOnlyCall(w)
  <2>1. call[w].phase = "run" /\ Throw(w)
    BY <1>1 DEF ReadOnlyCall, IInv, ProfileInv, WorkerInv, ReadOps
  <2> QED BY <2>1, ThrowKeeps
<1> QED BY <1>1, AccessKeeps, TagKeeps, OverrideKeeps, ChangeKeeps, RemoveKeeps, UnlinkKeeps, UnlinkFailsKeeps,
           SaveOpenKeeps, SaveExportKeeps, SaveFlushKeeps, SaveNothingKeeps DEF Handler

-----------------------------------------------------------------------------
(* The theorems *)

LEMMA InitIInv ==
    ASSUME Init PROVE IInv
<1>1. TypeOK
  <2>1. Idle \in [op: Operations, path: Paths \cup {None}, phase: Phases, snap: SavedProfile \cup {None}]
    BY DEF Idle, Operations, Phases
  <2>2. 0 \in 0..MaxCalls
    BY MaxCallsAssumption
  <2> QED BY <2>1, <2>2 DEF Init, TypeOK
<1>2. \A w \in Workers : call[w] = Idle /\ call[w].path = None /\ call[w].phase = "idle" /\ call[w].op = "idle"
  BY DEF Init, Idle
<1>3. ObjectInv /\ QuietInv /\ RemovedInv /\ SealedInv
  BY DEF Init, ObjectInv, QuietInv, RemovedInv, SealedInv, Readable
<1>4. WorkerInv /\ Alone /\ CallInv
  BY <1>2, NoneAssumption DEF WorkerInv, Alone, CallInv, ReadOps, Saving
<1> QED BY <1>1, <1>3, <1>4 DEF IInv, ProfileInv

LEMMA NextIInv ==
    ASSUME IInv, Next PROVE IInv' /\ KeepsSealed
<1>1. CASE \E w \in Workers : Handler(w)
  BY <1>1, HandlerKeeps
<1>2. CASE \E w \in Workers, p \in Paths, uid \in Users :
             \/ \E m \in Methods : Call(w, p, uid, m)
             \/ CallTransferOwnership(w, p, uid)
  BY <1>2, CallKeeps
<1>3. CASE \E w \in Workers, p \in Paths, uid \in Users, opts \in Contents, single, persistent \in BOOLEAN :
             method_import(w, p, uid, opts, single, persistent)
  BY <1>3, ImportKeeps
<1>4. CASE \E w \in Workers, p \in Paths : CallFetchBackend(w, p)
  BY <1>4, CallKeeps
<1>5. CASE Crash \/ IdleExit
  BY <1>5, StopKeeps DEF Crash, IdleExit
<1>6. CASE Start
  BY <1>6, StartKeeps
<1> QED BY <1>1, <1>2, <1>3, <1>4, <1>5, <1>6 DEF Next

LEMMA StutterIInv ==
    ASSUME IInv, UNCHANGED vars PROVE IInv'
BY DEF IInv, TypeOK, ProfileInv, ObjectInv, WorkerInv, Alone, CallInv, QuietInv, RemovedInv, SealedInv,
       Busy, InFile, Readable, vars

LEMMA Inductive == Spec => []IInv
<1>1. IInv /\ [Next]_vars => IInv'
  BY NextIInv, StutterIInv
<1> QED BY <1>1, InitIInv, PTL DEF Spec

\* Profiles, files and calls keep their types: what is read back from a file is
\* always a profile, whatever was interrupted (parse and Export of a profile).
THEOREM TypeCorrect == Spec => []TypeOK
<1>1. IInv => TypeOK
  BY DEF IInv
<1> QED BY <1>1, Inductive, PTL

\* Once the calls on a persistent profile are over, its file holds what was
\* answered, for any number of threads (update_persistent_file).
THEOREM AnsweredChangesAreSaved == Spec => []SavedWhenQuiet
<1>1. IInv => SavedWhenQuiet
  <2> SUFFICES ASSUME IInv, NEW p \in live \ overlap, HasFile(mem[p]), ~Busy(p)
               PROVE  /\ file[p] \notin {None, Broken}
                      /\ [file[p] EXCEPT !.overrides = mem[p].overrides] = Export(mem[p])
                      /\ mem[p].overrides \subseteq file[p].overrides
    BY DEF SavedWhenQuiet
  <2>1. Readable(p) /\ Agree(file[p], mem[p])
    BY DEF IInv, ProfileInv, QuietInv, InFile
  <2>2. file[p] \in SavedProfile /\ mem[p] \in Profile
    BY <2>1 DEF IInv, TypeOK, ProfileInv, ObjectInv, Readable
  <2> QED BY <2>1, <2>2, AgreeIsExport DEF Readable, Agree
<1> QED BY <1>1, Inductive, PTL

\* No restart brings a removed profile back (method_remove).
THEOREM RemovalIsFinal == Spec => []RemovedStaysRemoved
<1>1. IInv => RemovedStaysRemoved
  BY DEF IInv, ProfileInv, RemovedInv, RemovedStaysRemoved
<1> QED BY <1>1, Inductive, PTL

\* No call and no restart changes or unseals a sealed profile (Authorize, method_seal).
THEOREM SealIsFinal == Spec => SealedStaysSealed
<1>1. ASSUME IInv, [Next]_vars
      PROVE  [\A p \in sealed \ overlap' : p \in live' => mem'[p].readonly /\ Frozen(mem'[p]) = Frozen(mem[p])]_vars
  <2>1. CASE UNCHANGED vars
    BY <2>1
  <2>2. CASE Next
    <3>1. IInv' /\ KeepsSealed
      BY <1>1, <2>2, NextIInv
    <3> QED BY <3>1 DEF KeepsSealed, IInv, ProfileInv, SealedInv
  <2> QED BY <1>1, <2>1, <2>2
<1> QED BY <1>1, Inductive, PTL DEF Spec, SealedStaysSealed

-----------------------------------------------------------------------------
(* The commands that use the manager: OUTCOME TOLD.  A behaviour of them has *)
(* profiles of its own, where a call is one step.                            *)

AllOps == UNION {l.ops : l \in Lines}
Places == CommandPaths \cup {l.path : l \in Lines} \cup {None}

CommandRecord ==
    [user: People, line: Lines, stage: {"start", "confirm", "open", "run", "end"}, path: Places,
     todo: Seq(AllOps), ops: Seq(AllOps), keys: SUBSET CommandKeys, done: SUBSET AllOps, waived: SUBSET AllOps,
     code: {0, 3}, cache: SUBSET CommandKeys, first: {None} \cup SUBSET CommandKeys, shown: SUBSET CommandKeys,
     list: SUBSET CommandPaths, left: SUBSET CommandPaths, listed: SUBSET CommandPaths,
     out: {"none", "ok", "partial", "error", "declined"}]

\* The overrides of a profile that is shown are known ones.
ProfilesOK ==
    /\ DOMAIN profiles = CommandPaths /\ shown \subseteq CommandPaths
    /\ \A p \in shown : "overrides" \in DOMAIN profiles[p] /\ profiles[p].overrides \in SUBSET CommandKeys

\* Process c has carried out or waived the first n of its operations.
Carried(c, n) ==
    /\ Len(c.todo) = Len(c.ops) - n /\ \A i \in 1..Len(c.todo) : c.todo[i] = c.ops[n + i]
    /\ c.done \cup c.waived = {c.ops[i] : i \in 1..n}

Listed(q, x) == \E i \in 1..Len(q) : q[i] = x

Working(c) ==
    /\ c.stage \in {"start", "confirm", "open"} =>
         c.ops = <<>> /\ c.done = {} /\ c.waived = {} /\ c.out = "none" /\ c.first = None
    /\ c.stage = "run" =>
         /\ c.out = "none" /\ c.line.cmd \notin Command!Listing
         /\ \E n \in 0..Len(c.ops) : Carried(c, n)
         /\ \A o \in c.line.ops : Listed(c.ops, o)
         /\ \A i \in 1..Len(c.ops) : c.ops[i] \in c.line.ops
    /\ c.code # 3 => \A o \in c.waived : Command!Excused(c.line, o)

\* The first set of overrides that is not empty stays in the cache; of it all
\* is shown but what is still to be looked up.
Looking(c) ==
    /\ c.first = None => c.cache = {} /\ c.shown = {}
    /\ c.first \notin {None, {}} => c.cache = c.first
    /\ c.stage = "run" /\ c.first = None => c.keys = IF c.line.show THEN CommandKeys ELSE {}
    /\ c.stage = "run" /\ c.first \notin {None, {}} => c.shown = c.first \ c.keys
    /\ c.stage = "run" /\ c.keys # {} => c.line.show

ListingOK(c) ==
    /\ c.list = c.listed \cup c.left
    /\ c.line.cmd \notin Command!Listing => c.left = {}
    /\ c.stage = "start" => c.listed = {}

Told(c) == Command!DoneIsPrefix(c) /\ Command!ShownTogether(c) /\ Command!ListComplete(c)

CommandOK(c) == Working(c) /\ Looking(c) /\ ListingOK(c) /\ (c.stage = "end" => Told(c))

ToldInv ==
    /\ ProfilesOK
    /\ cmd \in [Fronts -> CommandRecord]
    /\ \A f \in Fronts : CommandOK(cmd[f])

\* SetToSeq() lists each element of a finite set.
LEMMA OptionsListed ==
    ASSUME NEW S, IsFiniteSet(S)
    PROVE  /\ Command!SetToSeq(S) \in Seq(S)
           /\ \A x \in S : Listed(Command!SetToSeq(S), x)
<1> DEFINE n == Cardinality(S)
           f == Command!SetToSeq(S)
<1>1. n \in Nat /\ Bijection(1..n, S) # {}
  BY FS_CardinalityType, Fun_ExistsBij
<1>2. PICK g \in Bijection(1..n, S) : TRUE
  BY <1>1
<1>3. g \in [1..n -> S] /\ IsInjective(g)
  BY <1>2 DEF Bijection, Injection
<1>4. Command!Cardinality(S) = n
  BY DEF Command!Cardinality, Cardinality
<1>5. f = CHOOSE h \in [1..n -> S] : Command!IsInjective(h)
  BY <1>4 DEF Command!SetToSeq
<1>6. Command!IsInjective(g)
  BY <1>3 DEF Command!IsInjective, IsInjective
<1>7. f \in [1..n -> S] /\ Command!IsInjective(f)
  BY <1>3, <1>5, <1>6
<1>8. f \in Injection(1..n, S)
  BY <1>7 DEF Injection, Command!IsInjective, IsInjective
<1>9. IsFiniteSet(1..n) /\ Cardinality(1..n) = n
  BY <1>1, FS_Interval
<1>10. f \in Surjection(1..n, S)
  BY <1>8, <1>9, FS_Injection
<1>11. \A x \in S : \E i \in 1..n : f[i] = x
  BY <1>10 DEF Surjection
<1> HIDE DEF f, n
<1>12. f \in Seq(S) /\ Len(f) = n
  BY <1>1, <1>7
<1> QED BY <1>11, <1>12 DEF f, Listed

\* An element of one of two sequences is one of their concatenation.
LEMMA JoinLists ==
    ASSUME NEW S, NEW a \in Seq(S), NEW b \in Seq(S), NEW x, Listed(a, x) \/ Listed(b, x)
    PROVE  Listed(a \o b, x)
<1>1. /\ Len(a \o b) = Len(a) + Len(b) /\ Len(a) \in Nat /\ Len(b) \in Nat
      /\ \A i \in 1..Len(a) : (a \o b)[i] = a[i]
      /\ \A i \in 1..Len(b) : (a \o b)[Len(a) + i] = b[i]
  OBVIOUS
<1>2. ASSUME NEW i \in 1..Len(a), a[i] = x PROVE \E j \in 1..Len(a \o b) : (a \o b)[j] = x
  BY <1>1, <1>2
<1>3. ASSUME NEW i \in 1..Len(b), b[i] = x PROVE \E j \in 1..Len(a \o b) : (a \o b)[j] = x
  <2>1. Len(a) + i \in 1..Len(a \o b) /\ (a \o b)[Len(a) + i] = x
    BY <1>1, <1>3
  <2> QED BY <2>1
<1> QED BY <1>2, <1>3 DEF Listed

\* A sequence of operations of a line that has all those of kinds K.
Covers(q, l, K) == q \in Seq(l.ops) /\ \A o \in l.ops : o[1] \in K => Listed(q, o)

LEMMA CoversKind ==
    ASSUME NEW l, IsFiniteSet(l.ops), NEW kind PROVE Covers(Command!Of(l, kind), l, {kind})
<1> DEFINE S == {o \in l.ops : o[1] = kind}
<1>1. S \subseteq l.ops /\ \A o \in l.ops : o[1] = kind => o \in S
  OBVIOUS
<1>2. IsFiniteSet(S)
  BY <1>1, FS_Subset
<1>3. Command!SetToSeq(S) \in Seq(S) /\ \A x \in S : Listed(Command!SetToSeq(S), x)
  BY <1>2, OptionsListed
<1>4. Command!Of(l, kind) = Command!SetToSeq(S)
  BY DEF Command!Of
<1> HIDE DEF S
<1>5. Command!SetToSeq(S) \in Seq(l.ops)
  BY <1>1, <1>3
<1> QED BY <1>1, <1>3, <1>4, <1>5 DEF Covers

LEMMA CoversJoin ==
    ASSUME NEW l, NEW J, NEW K, NEW a, NEW b, Covers(a, l, J), Covers(b, l, K)
    PROVE  Covers(a \o b, l, J \cup K)
<1>1. a \in Seq(l.ops) /\ b \in Seq(l.ops)
  BY DEF Covers
<1>2. a \o b \in Seq(l.ops)
  BY <1>1
<1>3. ASSUME NEW o \in l.ops, o[1] \in J \cup K PROVE Listed(a \o b, o)
  <2>1. Listed(a, o) \/ Listed(b, o)
    BY <1>3 DEF Covers
  <2> QED BY <1>1, <2>1, JoinLists
<1> QED BY <1>2, <1>3 DEF Covers

\* No option is forgotten: the operations of a command are its options, kind by kind.
LEMMA OrderedAll ==
    ASSUME Command!WellFormed, NEW l \in Lines, l.cmd \notin Command!Listing
    PROVE  LET q == Command!Ordered(l) IN
           /\ q \in Seq(l.ops) /\ \A o \in l.ops : Listed(q, o)
<1> DEFINE O(kind) == Command!Of(l, kind)
<1>1. IsFiniteSet(l.ops) /\ \A o \in l.ops : o[1] \in Command!Options(l.cmd)
  <2>1. Command!IsFiniteSet(l.ops) <=> IsFiniteSet(l.ops)
    BY DEF Command!IsFiniteSet, IsFiniteSet
  <2> QED BY <2>1 DEF Command!WellFormed
<1>2. \A kind : Covers(O(kind), l, {kind})
  BY <1>1, CoversKind
<1>3. Covers(Command!ManageOps(l), l, {"rename", "untag", "tag", "dco", "set", "unset"})
  <2> HIDE DEF O
  <2> DEFINE q2 == O("rename") \o O("untag")
             q3 == q2 \o O("tag")
             q4 == q3 \o O("dco")
             q5 == q4 \o O("set")
             q6 == q5 \o O("unset")
  <2>1. Covers(q2, l, {"rename"} \cup {"untag"})
    BY <1>2, CoversJoin
  <2>2. Covers(q3, l, {"rename"} \cup {"untag"} \cup {"tag"})
    BY <1>2, <2>1, CoversJoin
  <2>3. Covers(q4, l, {"rename"} \cup {"untag"} \cup {"tag"} \cup {"dco"})
    BY <1>2, <2>2, CoversJoin
  <2>4. Covers(q5, l, {"rename"} \cup {"untag"} \cup {"tag"} \cup {"dco"} \cup {"set"})
    BY <1>2, <2>3, CoversJoin
  <2>5. Covers(q6, l, {"rename"} \cup {"untag"} \cup {"tag"} \cup {"dco"} \cup {"set"} \cup {"unset"})
    BY <1>2, <2>4, CoversJoin
  <2>6. Command!ManageOps(l) = q6
    BY DEF Command!ManageOps, O
  <2> HIDE DEF q6
  <2> QED BY <2>5, <2>6 DEF Covers
<1>4. Covers(Command!AclOps(l), l, {"grant", "revoke", "transfer", "lock", "public", "seal"})
  <2> HIDE DEF O
  <2> DEFINE q2 == O("grant") \o O("revoke")
             q3 == q2 \o O("transfer")
             q4 == q3 \o O("lock")
             q5 == q4 \o O("public")
             q6 == q5 \o O("seal")
  <2>1. Covers(q2, l, {"grant"} \cup {"revoke"})
    BY <1>2, CoversJoin
  <2>2. Covers(q3, l, {"grant"} \cup {"revoke"} \cup {"transfer"})
    BY <1>2, <2>1, CoversJoin
  <2>3. Covers(q4, l, {"grant"} \cup {"revoke"} \cup {"transfer"} \cup {"lock"})
    BY <1>2, <2>2, CoversJoin
  <2>4. Covers(q5, l, {"grant"} \cup {"revoke"} \cup {"transfer"} \cup {"lock"} \cup {"public"})
    BY <1>2, <2>3, CoversJoin
  <2>5. Covers(q6, l, {"grant"} \cup {"revoke"} \cup {"transfer"} \cup {"lock"} \cup {"public"} \cup {"seal"})
    BY <1>2, <2>4, CoversJoin
  <2>6. Command!AclOps(l) = q6
    BY DEF Command!AclOps, O
  <2> HIDE DEF q6
  <2> QED BY <2>5, <2>6 DEF Covers
<1>5. Covers(O("set") \o O("tag"), l, {"set", "tag"})
  <2> HIDE DEF O
  <2>1. Covers(O("set") \o O("tag"), l, {"set"} \cup {"tag"})
    BY <1>2, CoversJoin
  <2> QED BY <2>1 DEF Covers
<1>6. Covers(O("validate") \o O("set") \o O("remove") \o O("fetch") \o O("read"), l,
             {"validate", "set", "remove", "fetch", "read"})
  <2> HIDE DEF O
  <2> DEFINE q2 == O("validate") \o O("set")
             q3 == q2 \o O("remove")
             q4 == q3 \o O("fetch")
             q5 == q4 \o O("read")
  <2>1. Covers(q2, l, {"validate"} \cup {"set"})
    BY <1>2, CoversJoin
  <2>2. Covers(q3, l, {"validate"} \cup {"set"} \cup {"remove"})
    BY <1>2, <2>1, CoversJoin
  <2>3. Covers(q4, l, {"validate"} \cup {"set"} \cup {"remove"} \cup {"fetch"})
    BY <1>2, <2>2, CoversJoin
  <2>4. Covers(q5, l, {"validate"} \cup {"set"} \cup {"remove"} \cup {"fetch"} \cup {"read"})
    BY <1>2, <2>3, CoversJoin
  <2>5. O("validate") \o O("set") \o O("remove") \o O("fetch") \o O("read") = q5
    OBVIOUS
  <2> HIDE DEF q5
  <2> QED BY <2>4, <2>5 DEF Covers
<1>7. Covers(Command!Ordered(l), l, Command!Options(l.cmd))
  <2>1. Command!Options(l.cmd) = IF l.cmd = "config-manage" THEN {"rename", "untag", "tag", "dco", "set", "unset"}
            ELSE IF l.cmd = "config-acl" THEN {"grant", "revoke", "transfer", "lock", "public", "seal"}
            ELSE IF l.cmd = "config-import" THEN {"set", "tag"} ELSE {"validate", "set", "remove", "fetch", "read"}
    BY DEF Command!Options
  <2>2. Command!Ordered(l) = IF l.cmd = "config-manage" THEN Command!ManageOps(l)
            ELSE IF l.cmd = "config-acl" THEN Command!AclOps(l)
            ELSE IF l.cmd = "config-import" THEN O("set") \o O("tag")
            ELSE O("validate") \o O("set") \o O("remove") \o O("fetch") \o O("read")
    BY DEF Command!Ordered
  <2> HIDE DEF O
  <2>3. CASE l.cmd = "config-manage"
    BY <1>3, <2>1, <2>2, <2>3
  <2>4. CASE l.cmd = "config-acl"
    BY <1>4, <2>1, <2>2, <2>4
  <2>5. CASE l.cmd = "config-import"
    BY <1>5, <2>1, <2>2, <2>5
  <2>6. CASE l.cmd \notin {"config-manage", "config-acl", "config-import"}
    BY <1>6, <2>1, <2>2, <2>6
  <2> QED BY <2>3, <2>4, <2>5, <2>6
<1> QED BY <1>1, <1>7 DEF Covers

-----------------------------------------------------------------------------
(* What a process goes on to *)

LEMMA MoveKeeps ==
    ASSUME ToldInv, ProfilesOK', NEW f \in Fronts, NEW r \in CommandRecord,
           Command!Now(f, r), CommandOK(r)
    PROVE  ToldInv'
<1>1. cmd \in [Fronts -> CommandRecord] /\ cmd' = [cmd EXCEPT ![f] = r]
  BY DEF ToldInv, Command!Now
<1>2. cmd'[f] = r /\ \A g \in Fronts \ {f} : cmd'[g] = cmd[g]
  BY <1>1
<1>3. cmd' \in [Fronts -> CommandRecord]
  BY <1>1
<1>4. \A g \in Fronts : CommandOK(cmd'[g])
  BY <1>2 DEF ToldInv
<1>5. (\A g \in Fronts : CommandOK(cmd[g]))'
  BY <1>4 DEF CommandOK, Working, Looking, ListingOK, Told, Carried, Listed, Command!DoneIsPrefix,
              Command!ShownTogether, Command!ListComplete, Command!Excused, Command!Listing
<1> QED BY <1>3, <1>5 DEF ToldInv

LEMMA QuietMove == ASSUME ToldInv, Command!Quietly PROVE ProfilesOK'
BY DEF ToldInv, ProfilesOK, Command!Quietly

LEMMA CommandType ==
    ASSUME ToldInv, NEW f \in Fronts PROVE cmd[f] \in CommandRecord /\ CommandOK(cmd[f])
BY DEF ToldInv

LEMMA EndedFields ==
    ASSUME NEW c \in CommandRecord, NEW out \in {"ok", "partial", "error", "declined"}
    PROVE  LET r == Command!Ended(c, out) IN
           /\ r \in CommandRecord /\ r.stage = "end" /\ r.out = out
           /\ r.line = c.line /\ r.ops = c.ops /\ r.done = c.done /\ r.waived = c.waived /\ r.code = c.code
           /\ r.cache = c.cache /\ r.first = c.first /\ r.shown = c.shown
           /\ r.list = c.list /\ r.left = c.left /\ r.listed = c.listed
<1> DEFINE nothing == <<>>
           r == [c EXCEPT !.stage = "end", !.out = out, !.todo = nothing]
<1>1. nothing \in Seq(AllOps)
  OBVIOUS
<1>2. Command!Ended(c, out) = r
  BY DEF Command!Ended
<1> HIDE DEF nothing
<1>3. r \in CommandRecord
  BY <1>1 DEF CommandRecord
<1>4. /\ r.stage = "end" /\ r.out = out
      /\ r.line = c.line /\ r.ops = c.ops /\ r.done = c.done /\ r.waived = c.waived /\ r.code = c.code
      /\ r.cache = c.cache /\ r.first = c.first /\ r.shown = c.shown
      /\ r.list = c.list /\ r.left = c.left /\ r.listed = c.listed
  BY DEF CommandRecord
<1> QED BY <1>2, <1>3, <1>4

\* A command ends.
LEMMA EndKeeps ==
    ASSUME NEW c \in CommandRecord, CommandOK(c), NEW out \in {"ok", "partial", "error", "declined"},
           Told(Command!Ended(c, out))
    PROVE  Command!Ended(c, out) \in CommandRecord /\ CommandOK(Command!Ended(c, out))
<1> DEFINE r == Command!Ended(c, out)
<1>1. /\ r \in CommandRecord /\ r.stage = "end" /\ r.out = out
      /\ r.line = c.line /\ r.ops = c.ops /\ r.done = c.done /\ r.waived = c.waived /\ r.code = c.code
      /\ r.cache = c.cache /\ r.first = c.first /\ r.shown = c.shown
      /\ r.list = c.list /\ r.left = c.left /\ r.listed = c.listed
  BY EndedFields
<1>2. Told(r)
  OBVIOUS
<1> HIDE DEF r
<1>3. Working(r)
  BY <1>1 DEF CommandOK, Working
<1>4. Looking(r)
  BY <1>1 DEF CommandOK, Looking
<1>5. ListingOK(r)
  BY <1>1 DEF CommandOK, ListingOK
<1>6. CommandOK(r)
  BY <1>2, <1>3, <1>4, <1>5 DEF CommandOK
<1> QED BY <1>1, <1>6 DEF r

\* An error, or an answer other than YES, before anything was done.
LEMMA EndsEarly ==
    ASSUME NEW c \in CommandRecord, CommandOK(c), c.stage \in {"start", "confirm", "open"},
           NEW out \in {"error", "declined"}
    PROVE  Command!Ended(c, out) \in CommandRecord /\ CommandOK(Command!Ended(c, out))
<1> DEFINE r == Command!Ended(c, out)
<1>1. c.ops = <<>> /\ c.first = None
  BY DEF CommandOK, Working
<1>2. r.out = out /\ r.ops = <<>> /\ r.first = None
  BY <1>1, EndedFields
<1> HIDE DEF r
<1>3. Told(r)
  BY <1>2 DEF Told, Command!DoneIsPrefix, Command!ShownTogether, Command!ListComplete
<1> QED BY <1>3, EndKeeps DEF r

\* The next stage, before anything is done.
LEMMA StageKeeps ==
    ASSUME NEW c \in CommandRecord, CommandOK(c), c.stage \in {"start", "confirm", "open"},
           NEW s \in {"confirm", "open"}, NEW p \in Places,
           NEW r, r = [c EXCEPT !.stage = s, !.path = p]
    PROVE  r \in CommandRecord /\ CommandOK(r)
<1>1. r \in CommandRecord
  BY DEF CommandRecord
<1>2. /\ r.stage = s /\ r.out = c.out
      /\ r.line = c.line /\ r.ops = c.ops /\ r.done = c.done /\ r.waived = c.waived /\ r.code = c.code
      /\ r.cache = c.cache /\ r.first = c.first /\ r.shown = c.shown
      /\ r.list = c.list /\ r.left = c.left /\ r.listed = c.listed
  BY DEF CommandRecord
<1>3. Working(r)
  BY <1>2 DEF CommandOK, Working
<1>4. Looking(r)
  BY <1>2 DEF CommandOK, Looking
<1>5. ListingOK(r)
  BY <1>2 DEF CommandOK, ListingOK
<1> QED BY <1>1, <1>2, <1>3, <1>4, <1>5 DEF CommandOK

\* What the look-ups return is shown.
LEMMA LookupPaths ==
    ASSUME ToldInv, NEW c
    PROVE  /\ Command!LookupConfigName(c) \subseteq CommandPaths
           /\ Command!SearchByOwner(c) \subseteq CommandPaths
           /\ Command!FetchAvailableConfigs(c) \subseteq CommandPaths
           /\ \A t : Command!SearchByTag(c, t) \subseteq CommandPaths
<1>1. shown \subseteq CommandPaths
  BY DEF ToldInv, ProfilesOK
<1>2. \A uid, b : Command!Manager!helper_retrieve_configs(uid, b) \subseteq shown
  BY DEF Command!Manager!helper_retrieve_configs
<1> QED BY <1>1, <1>2 DEF Command!LookupConfigName, Command!SearchByOwner, Command!FetchAvailableConfigs,
      Command!SearchByTag, Command!Manager!method_lookup_config_name, Command!Manager!method_search_by_tag,
      Command!Manager!method_search_by_owner, Command!Manager!method_fetch_available_configs

LEMMA LookupKeeps ==
    ASSUME ToldInv, NEW f \in Fronts,
           Command!retrieve_config_path(f) \/ Command!GivenPath(f) \/ Command!MergeFails(f)
           \/ \E yes \in BOOLEAN : Command!Confirm(f, yes)
    PROVE  ToldInv'
<1> DEFINE c == cmd[f]
           s == IF c.line.cmd = "config-remove" /\ ~c.line.force THEN "confirm" ELSE "open"
<1>1. c \in CommandRecord /\ CommandOK(c) /\ c.stage \in {"start", "confirm"} /\ Command!Quietly
  BY CommandType DEF Command!retrieve_config_path, Command!GivenPath, Command!MergeFails, Command!Confirm,
                     Command!Running
<1>2. \/ \E out \in {"error", "declined"} : Command!Now(f, Command!Ended(c, out))
      \/ \E p \in Places : Command!Now(f, Command!Opened(c, p))
      \/ Command!Now(f, [c EXCEPT !.stage = "open"])
  <2>1. c.line.path \in Places /\ CommandPaths \subseteq Places
    BY <1>1 DEF CommandRecord, Places
  <2>2. CASE Command!retrieve_config_path(f)
    <3>1. Command!LookupConfigName(c) \subseteq Places
      BY <2>1, LookupPaths
    <3> QED BY <2>2, <3>1 DEF Command!retrieve_config_path
  <2>3. CASE Command!GivenPath(f)
    BY <2>1, <2>3 DEF Command!GivenPath
  <2>4. CASE Command!MergeFails(f)
    BY <2>4 DEF Command!MergeFails
  <2>5. ASSUME NEW yes \in BOOLEAN, Command!Confirm(f, yes)
        PROVE  Command!Now(f, Command!Ended(c, "declined")) \/ Command!Now(f, [c EXCEPT !.stage = "open"])
    BY <2>5 DEF Command!Confirm
  <2> QED BY <2>2, <2>3, <2>4, <2>5
<1>3. CASE \E out \in {"error", "declined"} : Command!Now(f, Command!Ended(c, out))
  BY <1>1, <1>3, EndsEarly, MoveKeeps, QuietMove
<1>4. ASSUME NEW p \in Places, Command!Now(f, Command!Opened(c, p)) PROVE ToldInv'
  <2>1. s \in {"confirm", "open"} /\ Command!Opened(c, p) = [c EXCEPT !.stage = s, !.path = p]
    BY DEF Command!Opened
  <2> HIDE DEF s
  <2>2. Command!Opened(c, p) \in CommandRecord /\ CommandOK(Command!Opened(c, p))
    BY <1>1, <2>1, StageKeeps
  <2> QED BY <1>1, <1>4, <2>2, MoveKeeps, QuietMove
<1>5. CASE Command!Now(f, [c EXCEPT !.stage = "open"])
  <2> DEFINE r == [c EXCEPT !.stage = "open"]
  <2>1. r = [c EXCEPT !.stage = "open", !.path = c.path] /\ c.path \in Places
    BY <1>1 DEF CommandRecord
  <2> HIDE DEF r
  <2>2. r \in CommandRecord /\ CommandOK(r)
    BY <1>1, <2>1, StageKeeps
  <2> QED BY <1>1, <1>5, <2>2, MoveKeeps, QuietMove DEF r
<1> QED BY <1>2, <1>3, <1>4, <1>5

LEMMA ImportCommandKeeps ==
    ASSUME ToldInv, NEW f \in Fronts, NEW p \in CommandPaths, NEW opts \in Contents, Command!import_config(f, p, opts)
    PROVE  ToldInv'
<1> DEFINE c == cmd[f]
           single == c.line.cmd = "session-start"
           new == [Command!Manager!NewProfile(c.user, opts, single, FALSE) EXCEPT !.name = c.line.name]
           r == [c EXCEPT !.stage = "open", !.path = p]
<1>1. /\ c \in CommandRecord /\ CommandOK(c) /\ c.stage = "start" /\ Command!Now(f, r)
      /\ shown' = shown \cup {p} /\ profiles' = [profiles EXCEPT ![p] = new]
  BY CommandType DEF Command!import_config, Command!Running
<1>2. p \in Places
  BY DEF Places
<1>3. r \in CommandRecord /\ CommandOK(r)
  BY <1>1, <1>2, StageKeeps
<1>4. "overrides" \in DOMAIN new /\ new.overrides = {}
  BY DEF Command!Manager!NewProfile
<1> HIDE DEF new, r
<1>5. ProfilesOK'
  <2>1. DOMAIN profiles = CommandPaths /\ shown \subseteq CommandPaths
    BY DEF ToldInv, ProfilesOK
  <2>2. DOMAIN profiles' = CommandPaths /\ profiles'[p] = new /\ \A q \in CommandPaths \ {p} : profiles'[q] = profiles[q]
    BY <1>1, <2>1
  <2>3. ASSUME NEW q \in shown' PROVE "overrides" \in DOMAIN profiles'[q] /\ profiles'[q].overrides \in SUBSET CommandKeys
    <3>1. CASE q = p
      BY <1>4, <2>2, <3>1
    <3>2. CASE q # p
      <4>1. q \in shown /\ profiles'[q] = profiles[q]
        BY <1>1, <2>1, <2>2, <3>2
      <4> QED BY <4>1 DEF ToldInv, ProfilesOK
    <3> QED BY <3>1, <3>2
  <2> QED BY <1>1, <2>1, <2>2, <2>3 DEF ProfilesOK
<1> QED BY <1>1, <1>3, <1>5, MoveKeeps

LEMMA OpenKeeps ==
    ASSUME Command!WellFormed, ToldInv, NEW f \in Fronts, Command!Open(f)
    PROVE  ToldInv'
<1> DEFINE c == cmd[f]
           ops == Command!Ordered(c.line)
           keys == IF c.line.show THEN CommandKeys ELSE {}
           r == [c EXCEPT !.stage = "run", !.todo = ops, !.ops = ops, !.keys = keys]
<1>1. /\ c \in CommandRecord /\ CommandOK(c) /\ c.stage = "open" /\ Command!Quietly
      /\ c.line.cmd \notin Command!Listing
      /\ Command!Now(f, r) \/ Command!Now(f, Command!Ended(c, "error"))
  BY CommandType DEF Command!Open, Command!Running, Command!WithOps
<1>2. CASE Command!Now(f, Command!Ended(c, "error"))
  BY <1>1, <1>2, EndsEarly, MoveKeeps, QuietMove
<1>3. CASE Command!Now(f, r)
  <2>1. c.line \in Lines
    BY <1>1 DEF CommandRecord
  <2>2. ops \in Seq(c.line.ops) /\ \A o \in c.line.ops : Listed(ops, o)
    BY <1>1, <2>1, OrderedAll
  <2>3. keys \in SUBSET CommandKeys /\ keys = IF c.line.show THEN CommandKeys ELSE {}
    OBVIOUS
  <2> HIDE DEF ops, keys
  <2>4. ops \in Seq(AllOps) /\ Len(ops) \in Nat /\ \A i \in 1..Len(ops) : ops[i] \in c.line.ops
    <3>1. c.line.ops \subseteq AllOps
      BY <2>1 DEF AllOps
    <3> QED BY <2>2, <3>1
  <2>5. r \in CommandRecord
    BY <1>1, <2>3, <2>4 DEF CommandRecord
  <2>6. /\ r.stage = "run" /\ r.ops = ops /\ r.todo = ops /\ r.keys = keys /\ r.line = c.line
        /\ r.done = c.done /\ r.waived = c.waived /\ r.code = c.code /\ r.out = c.out
    BY <1>1 DEF CommandRecord
  <2>7. /\ r.cache = c.cache /\ r.first = c.first /\ r.shown = c.shown
        /\ r.list = c.list /\ r.left = c.left /\ r.listed = c.listed
    BY <1>1 DEF CommandRecord
  <2> HIDE DEF r
  <2>8. c.out = "none" /\ c.done = {} /\ c.waived = {} /\ c.first = None
    BY <1>1 DEF CommandOK, Working
  <2>9. Carried(r, 0) /\ 0 \in 0..Len(r.ops)
    BY <2>4, <2>6, <2>8 DEF Carried
  <2>10. Working(r)
    BY <1>1, <2>2, <2>4, <2>6, <2>8, <2>9 DEF Working
  <2>11. Looking(r)
    BY <1>1, <2>3, <2>6, <2>7, <2>8 DEF Looking, CommandOK
  <2>12. ListingOK(r)
    BY <1>1, <2>6, <2>7 DEF ListingOK, CommandOK
  <2>13. CommandOK(r)
    BY <2>6, <2>10, <2>11, <2>12 DEF CommandOK
  <2> QED BY <1>1, <1>3, <2>5, <2>13, MoveKeeps, QuietMove
<1> QED BY <1>1, <1>2, <1>3

-----------------------------------------------------------------------------
(* Calls *)

\* The first operation of those that are left is the next one.
LEMMA NextCarried ==
    ASSUME NEW c \in CommandRecord, CommandOK(c), c.stage = "run", c.todo # <<>>
    PROVE  \E n \in 0..(Len(c.ops) - 1) :
             /\ Carried(c, n) /\ Head(c.todo) = c.ops[n + 1]
             /\ Head(c.todo) \in AllOps /\ Head(c.todo) \in c.line.ops
             /\ Tail(c.todo) \in Seq(AllOps) /\ Len(Tail(c.todo)) = Len(c.ops) - (n + 1)
             /\ \A i \in 1..Len(Tail(c.todo)) : Tail(c.todo)[i] = c.ops[n + 1 + i]
<1>1. c.ops \in Seq(AllOps) /\ c.todo \in Seq(AllOps)
  BY DEF CommandRecord
<1>2. PICK n \in 0..Len(c.ops) : Carried(c, n)
  BY DEF CommandOK, Working
<1>3. Len(c.todo) \in Nat \ {0} /\ Len(c.todo) = Len(c.ops) - n
  BY <1>1, <1>2 DEF Carried
<1>4. n \in 0..(Len(c.ops) - 1)
  BY <1>1, <1>3
<1>5. Head(c.todo) = c.todo[1] /\ c.todo[1] = c.ops[n + 1]
  BY <1>1, <1>2, <1>3 DEF Carried
<1>6. c.ops[n + 1] \in AllOps
  BY <1>1, <1>4
<1>7. c.ops[n + 1] \in c.line.ops
  BY <1>1, <1>4 DEF CommandOK, Working
<1>8. /\ Len(Tail(c.todo)) = Len(c.ops) - (n + 1)
      /\ \A i \in 1..Len(Tail(c.todo)) : Tail(c.todo)[i] = c.todo[i + 1]
  BY <1>1, <1>3
<1>9. \A i \in 1..Len(Tail(c.todo)) : Tail(c.todo)[i] = c.ops[n + 1 + i]
  BY <1>1, <1>2, <1>3, <1>8 DEF Carried
<1>10. Tail(c.todo) \in Seq(AllOps)
  BY <1>1
<1> QED BY <1>2, <1>4, <1>5, <1>6, <1>7, <1>8, <1>9, <1>10

\* One more operation is carried out or waived.
LEMMA OneMore ==
    ASSUME NEW c \in CommandRecord, CommandOK(c), c.stage = "run", c.todo # <<>>,
           NEW done \in SUBSET AllOps, NEW waived \in SUBSET AllOps, NEW code \in {0, 3},
           done \cup waived = (c.done \cup c.waived) \cup {Head(c.todo)},
           code # 3 => \A o \in waived : Command!Excused(c.line, o)
    PROVE  LET r == [c EXCEPT !.todo = Tail(c.todo), !.done = done, !.waived = waived, !.code = code]
           IN  r \in CommandRecord /\ CommandOK(r)
<1>1. PICK n \in 0..(Len(c.ops) - 1) :
        /\ Carried(c, n) /\ Head(c.todo) = c.ops[n + 1]
        /\ Tail(c.todo) \in Seq(AllOps) /\ Len(Tail(c.todo)) = Len(c.ops) - (n + 1)
        /\ \A i \in 1..Len(Tail(c.todo)) : Tail(c.todo)[i] = c.ops[n + 1 + i]
  BY NextCarried
<1> DEFINE todo == Tail(c.todo)
           r == [c EXCEPT !.todo = todo, !.done = done, !.waived = waived, !.code = code]
<1>2. todo = Tail(c.todo) /\ todo \in Seq(AllOps)
  BY <1>1
<1> HIDE DEF todo
<1>3. r \in CommandRecord
  BY <1>2 DEF CommandRecord
<1>4. /\ r.stage = "run" /\ r.ops = c.ops /\ r.todo = todo /\ r.keys = c.keys /\ r.line = c.line
      /\ r.done = done /\ r.waived = waived /\ r.code = code /\ r.out = c.out
  BY DEF CommandRecord
<1>5. /\ r.cache = c.cache /\ r.first = c.first /\ r.shown = c.shown
      /\ r.list = c.list /\ r.left = c.left /\ r.listed = c.listed
  BY DEF CommandRecord
<1> HIDE DEF r
<1>6. Len(c.ops) \in Nat
  BY DEF CommandRecord
<1>7. Carried(r, n + 1) /\ n + 1 \in 0..Len(r.ops)
  <2>1. Len(r.todo) = Len(r.ops) - (n + 1) /\ \A i \in 1..Len(r.todo) : r.todo[i] = r.ops[n + 1 + i]
    BY <1>1, <1>2, <1>4
  <2>2. 1..(n + 1) = 1..n \cup {n + 1}
    BY <1>6
  <2>3. {c.ops[i] : i \in 1..(n + 1)} = {c.ops[i] : i \in 1..n} \cup {Head(c.todo)}
    BY <1>1, <2>2
  <2>4. c.done \cup c.waived = {c.ops[i] : i \in 1..n}
    BY <1>1 DEF Carried
  <2>5. r.done \cup r.waived = {r.ops[i] : i \in 1..(n + 1)}
    BY <1>4, <2>3, <2>4
  <2> QED BY <1>4, <1>6, <2>1, <2>5 DEF Carried
<1>8. Working(r)
  BY <1>4, <1>7 DEF Working, CommandOK
<1>9. Looking(r)
  BY <1>4, <1>5 DEF Looking, CommandOK
<1>10. ListingOK(r)
  BY <1>4, <1>5 DEF ListingOK, CommandOK
<1>11. CommandOK(r)
  BY <1>4, <1>8, <1>9, <1>10 DEF CommandOK
<1> QED BY <1>2, <1>3, <1>11 DEF r

\* A call leaves the overrides of every profile known.
LEMMA EffectKeeps ==
    ASSUME NEW r, NEW o, "overrides" \in DOMAIN r, r.overrides \in SUBSET CommandKeys, Command!Accepts(r, o)
    PROVE  "overrides" \in DOMAIN Command!Effect(r, o) /\ Command!Effect(r, o).overrides \in SUBSET CommandKeys
<1>1. o[1] = "set" => o[2] \in CommandKeys
  BY DEF Command!Accepts
<1>2. DOMAIN Command!Effect(r, o) = DOMAIN r
  BY DEF Command!Effect
<1>3. Command!Effect(r, o).overrides =
        IF o[1] = "set" THEN r.overrides \cup {o[2]} ELSE IF o[1] = "unset" THEN r.overrides \ {o[2]} ELSE r.overrides
  BY DEF Command!Effect
<1> QED BY <1>1, <1>2, <1>3

LEMMA ApplyKeeps ==
    ASSUME ToldInv, NEW f \in Fronts, Command!Apply(f)
    PROVE  ToldInv'
<1> DEFINE c == cmd[f]
           o == Head(c.todo)
           p == c.path
           done == c.done \cup {o}
<1>1. /\ c \in CommandRecord /\ CommandOK(c) /\ c.stage = "run" /\ c.todo # <<>>
      /\ Command!Succeeds(p, c.user, o)
      /\ profiles' = [profiles EXCEPT ![p] = Command!Effect(profiles[p], o)]
      /\ shown' = IF o[1] = "remove" THEN shown \ {p} ELSE shown
      /\ Command!Now(f, [c EXCEPT !.todo = Tail(c.todo), !.done = done])
  BY CommandType DEF Command!Apply, Command!Running
<1>2. o \in AllOps
  BY <1>1, NextCarried
<1>3. ProfilesOK'
  <2>1. p \in shown /\ Command!Accepts(profiles[p], o)
    BY <1>1 DEF Command!Succeeds
  <2>2. DOMAIN profiles = CommandPaths /\ shown \subseteq CommandPaths /\ shown' \subseteq shown
    BY <1>1 DEF ToldInv, ProfilesOK
  <2>3. \A q \in shown : "overrides" \in DOMAIN profiles[q] /\ profiles[q].overrides \in SUBSET CommandKeys
    BY DEF ToldInv, ProfilesOK
  <2> DEFINE new == Command!Effect(profiles[p], o)
  <2>4. "overrides" \in DOMAIN new /\ new.overrides \in SUBSET CommandKeys
    BY <2>1, <2>3, EffectKeeps
  <2> HIDE DEF new
  <2>5. DOMAIN profiles' = CommandPaths /\ profiles'[p] = new /\ \A q \in CommandPaths \ {p} : profiles'[q] = profiles[q]
    BY <1>1, <2>1, <2>2 DEF new
  <2>6. ASSUME NEW q \in shown' PROVE "overrides" \in DOMAIN profiles'[q] /\ profiles'[q].overrides \in SUBSET CommandKeys
    <3>1. CASE q = p
      BY <2>4, <2>5, <3>1
    <3>2. CASE q # p
      <4>1. q \in shown /\ profiles'[q] = profiles[q]
        BY <2>2, <2>5, <3>2
      <4> QED BY <2>3, <4>1
    <3> QED BY <3>1, <3>2
  <2> QED BY <2>2, <2>5, <2>6 DEF ProfilesOK
<1>4. /\ done \in SUBSET AllOps /\ c.waived \in SUBSET AllOps /\ c.code \in {0, 3}
      /\ done \cup c.waived = (c.done \cup c.waived) \cup {o}
  BY <1>1, <1>2 DEF CommandRecord
<1>5. c.code # 3 => \A x \in c.waived : Command!Excused(c.line, x)
  BY <1>1 DEF CommandOK, Working
<1> DEFINE r == [c EXCEPT !.todo = Tail(c.todo), !.done = done, !.waived = c.waived, !.code = c.code]
<1>6. r \in CommandRecord /\ CommandOK(r)
  BY <1>1, <1>4, <1>5, OneMore
<1> HIDE DEF done
<1>7. [c EXCEPT !.todo = Tail(c.todo), !.done = done] = r
  BY <1>1 DEF CommandRecord
<1> HIDE DEF r
<1>8. Command!Now(f, r)
  BY <1>1, <1>7
<1> QED BY <1>3, <1>6, <1>8, MoveKeeps

\* An error in the middle of a command.
LEMMA StoppedShort ==
    ASSUME NEW c \in CommandRecord, CommandOK(c), c.stage = "run", c.todo # <<>> \/ c.line.show
    PROVE  Command!Ended(c, "error") \in CommandRecord /\ CommandOK(Command!Ended(c, "error"))
<1> DEFINE r == Command!Ended(c, "error")
<1>1. /\ r.out = "error" /\ r.line = c.line /\ r.ops = c.ops /\ r.done = c.done /\ r.waived = c.waived
  BY EndedFields
<1> HIDE DEF r
<1>2. PICK n \in 0..Len(c.ops) : Carried(c, n) /\ (n = Len(c.ops) => c.line.show)
  <2>1. Len(c.ops) \in Nat
    BY DEF CommandRecord
  <2>2. CASE c.todo # <<>>
    <3>1. PICK n \in 0..(Len(c.ops) - 1) : Carried(c, n)
      BY <2>2, NextCarried
    <3>2. n \in 0..Len(c.ops) /\ n # Len(c.ops)
      BY <2>1
    <3> QED BY <3>1, <3>2
  <2>3. CASE c.line.show
    BY <2>3 DEF CommandOK, Working
  <2> QED BY <2>2, <2>3
<1>3. c.done \cup c.waived = {c.ops[i] : i \in 1..n}
  BY <1>2 DEF Carried
<1>4. Command!DoneIsPrefix(r)
  BY <1>1, <1>2, <1>3 DEF Command!DoneIsPrefix
<1>5. Told(r)
  BY <1>1, <1>4 DEF Told, Command!ShownTogether, Command!ListComplete
<1> QED BY <1>5, EndKeeps DEF r

LEMMA WaiveKeeps ==
    ASSUME ToldInv, NEW f \in Fronts, Command!Refused(f) \/ Command!DeclineSeal(f)
    PROVE  ToldInv'
<1> DEFINE c == cmd[f]
           o == Head(c.todo)
           waived == c.waived \cup {o}
           code == IF c.line.cmd = "config-acl" /\ o[2] # None THEN 3 ELSE c.code
           R(k) == [c EXCEPT !.todo = Tail(c.todo), !.done = c.done, !.waived = waived, !.code = k]
<1>1. c \in CommandRecord /\ CommandOK(c) /\ c.stage = "run" /\ c.todo # <<>> /\ Command!Quietly
  BY CommandType DEF Command!Refused, Command!DeclineSeal, Command!Running
<1>2. \/ Command!Now(f, Command!Ended(c, "error"))
      \/ Command!Tolerated(c.line, o) /\ Command!Now(f, R(code))
      \/ c.line.cmd = "config-acl" /\ o[1] = "seal" /\ Command!Now(f, R(c.code))
  <2>1. CASE Command!Refused(f)
    <3>1. \/ Command!Now(f, Command!Ended(c, "error"))
          \/ /\ Command!Tolerated(c.line, o)
             /\ Command!Now(f, [c EXCEPT !.todo = Tail(c.todo), !.waived = waived, !.code = code])
      BY <2>1 DEF Command!Refused
    <3> HIDE DEF waived, code
    <3>2. [c EXCEPT !.todo = Tail(c.todo), !.waived = waived, !.code = code] = R(code)
      BY <1>1 DEF CommandRecord
    <3> QED BY <3>1, <3>2
  <2>2. CASE Command!DeclineSeal(f)
    <3>1. /\ c.line.cmd = "config-acl" /\ o[1] = "seal"
          /\ Command!Now(f, [c EXCEPT !.todo = Tail(c.todo), !.waived = waived])
      BY <2>2 DEF Command!DeclineSeal
    <3> HIDE DEF waived
    <3>2. [c EXCEPT !.todo = Tail(c.todo), !.waived = waived] = R(c.code)
      BY <1>1 DEF CommandRecord
    <3> QED BY <3>1, <3>2
  <2> QED BY <2>1, <2>2
<1>3. o \in AllOps
  BY <1>1, NextCarried
<1>4. /\ c.done \in SUBSET AllOps /\ waived \in SUBSET AllOps /\ c.code \in {0, 3} /\ code \in {0, 3}
      /\ c.done \cup waived = (c.done \cup c.waived) \cup {o}
  BY <1>1, <1>3 DEF CommandRecord
<1>5. c.code # 3 => \A x \in c.waived : Command!Excused(c.line, x)
  BY <1>1 DEF CommandOK, Working
<1>6. CASE Command!Now(f, Command!Ended(c, "error"))
  BY <1>1, <1>6, StoppedShort, MoveKeeps, QuietMove
<1>7. CASE Command!Tolerated(c.line, o) /\ Command!Now(f, R(code))
  <2>1. code # 3 => \A x \in waived : Command!Excused(c.line, x)
    BY <1>4, <1>5, <1>7 DEF Command!Tolerated, Command!Excused
  <2> HIDE DEF waived, code
  <2>2. R(code) \in CommandRecord /\ CommandOK(R(code))
    BY <1>1, <1>4, <2>1, OneMore
  <2> HIDE DEF R
  <2> QED BY <1>1, <1>7, <2>2, MoveKeeps, QuietMove
<1>8. CASE c.line.cmd = "config-acl" /\ o[1] = "seal" /\ Command!Now(f, R(c.code))
  <2>1. c.code # 3 => \A x \in waived : Command!Excused(c.line, x)
    BY <1>5, <1>8 DEF Command!Excused
  <2> HIDE DEF waived
  <2>2. R(c.code) \in CommandRecord /\ CommandOK(R(c.code))
    BY <1>1, <1>4, <2>1, OneMore
  <2> HIDE DEF R
  <2> QED BY <1>1, <1>8, <2>2, MoveKeeps, QuietMove
<1> QED BY <1>2, <1>6, <1>7, <1>8

-----------------------------------------------------------------------------
(* --show, and the end *)

LEMMA LookKeeps ==
    ASSUME Command!WellFormed, ToldInv, NEW f \in Fronts, Command!Look(f)
    PROVE  ToldInv'
<1> DEFINE c == cmd[f]
           k == CHOOSE x \in c.keys : TRUE
           ovs == Command!GetOverrides(c)
           keys == c.keys \ {k}
           first == IF c.first = None THEN ovs ELSE c.first
           told == IF k \in ovs THEN c.shown \cup {k} ELSE c.shown
           r == [c EXCEPT !.keys = keys, !.cache = ovs, !.first = first, !.shown = told]
<1>1. /\ c \in CommandRecord /\ CommandOK(c) /\ c.stage = "run" /\ c.keys # {} /\ Command!Quietly
      /\ \/ (c.cache # {} \/ Command!Readable(c.path, c.user)) /\ Command!Now(f, r)
         \/ Command!Now(f, Command!Ended(c, "error"))
  BY CommandType DEF Command!Look, Command!Running
<1>2. c.line.show
  BY <1>1 DEF CommandOK, Looking
<1>3. CASE Command!Now(f, Command!Ended(c, "error"))
  BY <1>1, <1>2, <1>3, StoppedShort, MoveKeeps, QuietMove
<1>4. CASE (c.cache # {} \/ Command!Readable(c.path, c.user)) /\ Command!Now(f, r)
  <2>1. /\ c.keys \in SUBSET CommandKeys /\ c.cache \in SUBSET CommandKeys /\ c.shown \in SUBSET CommandKeys
        /\ c.first \in {None} \cup SUBSET CommandKeys /\ None \notin SUBSET CommandKeys
    BY <1>1 DEF CommandRecord, Command!WellFormed
  <2>2. k \in c.keys
    BY <1>1
  <2>3. ovs \in SUBSET CommandKeys
    <3>1. CASE c.cache # {}
      BY <2>1, <3>1 DEF Command!GetOverrides
    <3>2. CASE c.cache = {}
      <4>1. c.path \in shown
        BY <1>4, <3>2 DEF Command!Readable
      <4> QED BY <3>2, <4>1 DEF Command!GetOverrides, ToldInv, ProfilesOK
    <3> QED BY <3>1, <3>2
  <2>4. c.cache # {} => ovs = c.cache
    BY DEF Command!GetOverrides
  <2> HIDE DEF k, ovs
  <2>5. /\ keys \in SUBSET CommandKeys /\ first \in {None} \cup SUBSET CommandKeys /\ told \in SUBSET CommandKeys /\ first # None
    BY <2>1, <2>2, <2>3
  <2>6. first \notin {None, {}} => ovs = first /\ told = first \ keys
    <3>1. CASE c.first = None
      <4>1. c.keys = CommandKeys /\ c.shown = {}
        BY <1>1, <1>2, <3>1 DEF CommandOK, Looking
      <4> QED BY <2>2, <2>3, <3>1, <4>1
    <3>2. CASE c.first \notin {None, {}}
      <4>1. c.cache = c.first /\ c.shown = c.first \ c.keys
        BY <1>1, <3>2 DEF CommandOK, Looking
      <4>2. ovs = c.first /\ first = c.first
        BY <2>4, <3>2, <4>1
      <4> QED BY <2>2, <4>1, <4>2
    <3>3. CASE c.first = {} /\ c.first # None
      BY <3>3
    <3> QED BY <3>1, <3>2, <3>3
  <2> HIDE DEF keys, first, told
  <2>7. r \in CommandRecord
    BY <1>1, <2>3, <2>5 DEF CommandRecord
  <2>8. /\ r.stage = "run" /\ r.ops = c.ops /\ r.todo = c.todo /\ r.line = c.line
        /\ r.done = c.done /\ r.waived = c.waived /\ r.code = c.code /\ r.out = c.out
        /\ r.list = c.list /\ r.left = c.left /\ r.listed = c.listed
    BY <1>1 DEF CommandRecord
  <2>9. r.keys = keys /\ r.cache = ovs /\ r.first = first /\ r.shown = told
    BY <1>1 DEF CommandRecord
  <2> HIDE DEF r
  <2>10. Working(r)
    BY <1>1, <2>8 DEF Working, CommandOK, Carried
  <2>11. Looking(r)
    BY <1>2, <2>5, <2>6, <2>8, <2>9 DEF Looking
  <2>12. ListingOK(r)
    BY <1>1, <2>8 DEF ListingOK, CommandOK
  <2>13. CommandOK(r)
    BY <2>8, <2>10, <2>11, <2>12 DEF CommandOK
  <2> QED BY <1>1, <1>4, <2>7, <2>13, MoveKeeps, QuietMove
<1> QED BY <1>1, <1>3, <1>4

LEMMA FinishKeeps ==
    ASSUME ToldInv, NEW f \in Fronts, Command!Finish(f)
    PROVE  ToldInv'
<1> DEFINE c == cmd[f]
           out == IF c.code = 3 THEN "partial" ELSE "ok"
           r == Command!Ended(c, out)
<1>1. /\ c \in CommandRecord /\ CommandOK(c) /\ c.stage = "run" /\ c.todo = <<>> /\ c.keys = {}
      /\ Command!Now(f, r) /\ Command!Quietly
  BY CommandType DEF Command!Finish, Command!Running
<1>2. out \in {"ok", "partial"} /\ (out = "ok" => c.code # 3)
  OBVIOUS
<1> HIDE DEF out
<1>3. /\ r.out = out /\ r.line = c.line /\ r.done = c.done /\ r.waived = c.waived
      /\ r.first = c.first /\ r.shown = c.shown /\ r.list = c.list /\ r.listed = c.listed
  BY <1>1, <1>2, EndedFields
<1> HIDE DEF r
<1>4. Command!DoneIsPrefix(r)
  <2>1. PICK n \in 0..Len(c.ops) : Carried(c, n)
    BY <1>1 DEF CommandOK, Working
  <2>2. c.ops \in Seq(AllOps) /\ Len(c.todo) = 0
    BY <1>1 DEF CommandRecord
  <2>3. n = Len(c.ops)
    BY <2>1, <2>2 DEF Carried
  <2>4. c.done \cup c.waived = {c.ops[i] : i \in 1..Len(c.ops)}
    BY <2>1, <2>3 DEF Carried
  <2>5. /\ \A o \in c.line.ops : Listed(c.ops, o)
        /\ \A i \in 1..Len(c.ops) : c.ops[i] \in c.line.ops
    BY <1>1 DEF CommandOK, Working
  <2>6. c.line.ops = c.done \cup c.waived
    BY <2>4, <2>5 DEF Listed
  <2>7. out = "ok" => \A o \in c.waived : Command!Excused(c.line, o)
    BY <1>1, <1>2 DEF CommandOK, Working
  <2> QED BY <1>2, <1>3, <2>6, <2>7 DEF Command!DoneIsPrefix
<1>5. Command!ShownTogether(r)
  BY <1>1, <1>3 DEF Command!ShownTogether, CommandOK, Looking
<1>6. Command!ListComplete(r)
  <2>1. c.left = {} /\ c.list = c.listed \cup c.left
    BY <1>1 DEF CommandOK, Working, ListingOK
  <2> QED BY <1>3, <2>1 DEF Command!ListComplete
<1>7. r \in CommandRecord /\ CommandOK(r)
  BY <1>1, <1>2, <1>4, <1>5, <1>6, EndKeeps DEF Told, r
<1> QED BY <1>1, <1>7, MoveKeeps, QuietMove

-----------------------------------------------------------------------------
(* Lists, and the theorem *)

LEMMA ListStepKeeps ==
    ASSUME ToldInv, NEW f \in Fronts, NEW list \in SUBSET CommandPaths, NEW left \in SUBSET CommandPaths,
           NEW listed \in SUBSET CommandPaths, list = listed \cup left,
           cmd[f].stage \in {"start", "open"}, cmd[f].line.cmd \notin Command!Listing => left = {},
           Command!Quietly,
           Command!Now(f, [cmd[f] EXCEPT !.stage = "open", !.list = list, !.left = left, !.listed = listed])
    PROVE  ToldInv'
<1> DEFINE c == cmd[f]
           r == [c EXCEPT !.stage = "open", !.list = list, !.left = left, !.listed = listed]
<1>1. c \in CommandRecord /\ CommandOK(c) /\ c.stage \in {"start", "open"}
  BY CommandType
<1>2. r \in CommandRecord
  BY <1>1 DEF CommandRecord
<1>3. /\ r.stage = "open" /\ r.ops = c.ops /\ r.line = c.line
      /\ r.done = c.done /\ r.waived = c.waived /\ r.code = c.code /\ r.out = c.out
      /\ r.cache = c.cache /\ r.first = c.first /\ r.shown = c.shown
      /\ r.list = list /\ r.left = left /\ r.listed = listed
  BY <1>1 DEF CommandRecord
<1>4. Command!Now(f, r)
  OBVIOUS
<1> HIDE DEF r
<1>5. Working(r)
  BY <1>1, <1>3 DEF Working, CommandOK
<1>6. Looking(r)
  BY <1>1, <1>3 DEF Looking, CommandOK
<1>7. ListingOK(r)
  BY <1>3 DEF ListingOK
<1>8. CommandOK(r)
  BY <1>3, <1>5, <1>6, <1>7 DEF CommandOK
<1> QED BY <1>2, <1>4, <1>8, MoveKeeps, QuietMove

LEMMA FetchListKeeps ==
    ASSUME ToldInv, NEW f \in Fronts, Command!FetchList(f)
    PROVE  ToldInv'
<1> DEFINE c == cmd[f]
           paths == IF c.line.by = "tag" THEN UNION {Command!SearchByTag(c, t) : t \in Tags}
                    ELSE IF c.line.by = "owner" THEN Command!SearchByOwner(c)
                    ELSE Command!FetchAvailableConfigs(c)
<1>1. /\ c \in CommandRecord /\ CommandOK(c) /\ c.stage = "start" /\ c.line.cmd \in Command!Listing
      /\ Command!Quietly /\ Command!Now(f, [c EXCEPT !.stage = "open", !.list = paths, !.left = paths])
  BY CommandType DEF Command!FetchList, Command!Running
<1>2. paths \in SUBSET CommandPaths
  BY LookupPaths
<1> HIDE DEF paths
<1>3. c.listed = {} /\ c.listed \in SUBSET CommandPaths
  BY <1>1 DEF CommandOK, ListingOK
<1>4. [c EXCEPT !.stage = "open", !.list = paths, !.left = paths]
        = [c EXCEPT !.stage = "open", !.list = paths, !.left = paths, !.listed = c.listed]
  BY <1>1 DEF CommandRecord
<1>5. Command!Now(f, [c EXCEPT !.stage = "open", !.list = paths, !.left = paths, !.listed = c.listed])
  BY <1>1, <1>4
<1>6. paths = c.listed \cup paths
  BY <1>3
<1> QED BY <1>1, <1>2, <1>3, <1>5, <1>6, ListStepKeeps

LEMMA ListProfileKeeps ==
    ASSUME ToldInv, NEW f \in Fronts, NEW p \in CommandPaths, Command!ListProfile(f, p)
    PROVE  ToldInv'
<1> DEFINE c == cmd[f]
           listed == c.listed \cup {p}
           left == c.left \ {p}
<1>1. /\ c \in CommandRecord /\ CommandOK(c) /\ c.stage = "open" /\ p \in c.left /\ Command!Quietly
      /\ \/ Command!Now(f, [c EXCEPT !.listed = listed, !.left = left])
         \/ Command!Now(f, Command!Ended(c, "error"))
  BY CommandType DEF Command!ListProfile, Command!Running
<1>2. CASE Command!Now(f, Command!Ended(c, "error"))
  BY <1>1, <1>2, EndsEarly, MoveKeeps, QuietMove
<1>3. CASE Command!Now(f, [c EXCEPT !.listed = listed, !.left = left])
  <2>1. c.listed \in SUBSET CommandPaths /\ c.left \in SUBSET CommandPaths /\ c.list \in SUBSET CommandPaths
    BY <1>1 DEF CommandRecord
  <2>2. /\ listed \in SUBSET CommandPaths /\ left \in SUBSET CommandPaths /\ c.list = listed \cup left
        /\ c.line.cmd \notin Command!Listing => left = {}
    BY <1>1, <2>1 DEF CommandOK, ListingOK
  <2> HIDE DEF listed, left
  <2>3. [c EXCEPT !.listed = listed, !.left = left]
          = [c EXCEPT !.stage = "open", !.list = c.list, !.left = left, !.listed = listed]
    BY <1>1 DEF CommandRecord
  <2> QED BY <1>1, <1>3, <2>1, <2>2, <2>3, ListStepKeeps
<1> QED BY <1>1, <1>2, <1>3

LEMMA ListEndsKeeps ==
    ASSUME Command!WellFormed, ToldInv, NEW f \in Fronts, Command!ListEnds(f)
    PROVE  ToldInv'
<1> DEFINE c == cmd[f]
           r == Command!Ended(c, "ok")
<1>1. /\ c \in CommandRecord /\ CommandOK(c) /\ c.stage = "open" /\ c.left = {}
      /\ c.line.cmd \in Command!Listing /\ Command!Now(f, r) /\ Command!Quietly
  BY CommandType DEF Command!ListEnds, Command!Running
<1>2. /\ r.out = "ok" /\ r.line = c.line /\ r.done = c.done /\ r.waived = c.waived
      /\ r.first = c.first /\ r.list = c.list /\ r.listed = c.listed
  BY <1>1, EndedFields
<1> HIDE DEF r
<1>3. c.done = {} /\ c.waived = {} /\ c.first = None
  BY <1>1 DEF CommandOK, Working
<1>4. c.line.ops = {}
  <2>1. c.line \in Lines
    BY <1>1 DEF CommandRecord
  <2>2. c.line.cmd \in {"configs-list", "complete"}
    BY <1>1 DEF Command!Listing
  <2>3. Command!Options(c.line.cmd) = {}
    BY <1>1, <2>2 DEF Command!Options
  <2>4. \A o \in c.line.ops : o[1] \in Command!Options(c.line.cmd)
    BY <2>1 DEF Command!WellFormed
  <2> QED BY <2>3, <2>4
<1>5. Told(r)
  BY <1>1, <1>2, <1>3, <1>4 DEF Told, Command!DoneIsPrefix, Command!ShownTogether, Command!ListComplete,
                                CommandOK, ListingOK
<1>6. r \in CommandRecord /\ CommandOK(r)
  BY <1>1, <1>5, EndKeeps DEF r
<1> QED BY <1>1, <1>6, MoveKeeps, QuietMove

LEMMA ToldStart == ASSUME Command!WellFormed, Command!Init PROVE ToldInv
<1>1. ProfilesOK
  <2> DEFINE p == CHOOSE q \in CommandPaths : TRUE
  <2>1. p \in CommandPaths /\ shown = {p}
    BY DEF Command!Init, Command!WellFormed
  <2> HIDE DEF p
  <2>2. PICK opts \in Contents, ovs \in {{}, CommandKeys}, granted \in SUBSET (People \ {Owner}) :
          LET new == Command!Manager!NewProfile(Owner, opts, FALSE, TRUE) IN
          profiles = [q \in CommandPaths |-> IF q \in shown THEN [new EXCEPT !.overrides = ovs, !.acl.acl = granted] ELSE None]
    BY DEF Command!Init
  <2> DEFINE new == [Command!Manager!NewProfile(Owner, opts, FALSE, TRUE) EXCEPT !.overrides = ovs, !.acl.acl = granted]
  <2>3. DOMAIN profiles = CommandPaths /\ profiles[p] = new
    BY <2>1, <2>2
  <2>4. "overrides" \in DOMAIN new /\ new.overrides = ovs
    BY DEF Command!Manager!NewProfile
  <2> HIDE DEF new
  <2> QED BY <2>1, <2>3, <2>4 DEF ProfilesOK
<1>2. PICK uid \in [Fronts -> People], line \in [Fronts -> Lines] :
        cmd = [f \in Fronts |-> Command!Command(uid[f], line[f])]
  BY DEF Command!Init
<1>3. ASSUME NEW f \in Fronts PROVE cmd[f] \in CommandRecord /\ CommandOK(cmd[f])
  <2> DEFINE c == Command!Command(uid[f], line[f])
  <2>1. <<>> \in Seq(AllOps) /\ None \in Places
    BY DEF Places
  <2>2. c \in CommandRecord
    BY <2>1 DEF Command!Command, CommandRecord
  <2>3. /\ c.stage = "start" /\ c.ops = <<>> /\ c.done = {} /\ c.waived = {} /\ c.out = "none"
        /\ c.first = None /\ c.cache = {} /\ c.shown = {}
        /\ c.list = {} /\ c.left = {} /\ c.listed = {}
    BY DEF Command!Command
  <2> HIDE DEF c
  <2>4. Working(c)
    BY <2>3 DEF Working
  <2>5. Looking(c) /\ ListingOK(c)
    BY <2>3 DEF Looking, ListingOK
  <2>6. CommandOK(c)
    BY <2>3, <2>4, <2>5 DEF CommandOK
  <2> QED BY <1>2, <2>2, <2>6 DEF c
<1>4. cmd \in [Fronts -> CommandRecord]
  BY <1>2, <1>3
<1> QED BY <1>1, <1>3, <1>4 DEF ToldInv

(* The outcome of a command on profiles says what it has done: all it was    *)
(* asked for, or the calls before the one that failed and no other; --show   *)
(* prints one state of the overrides and a list is complete.  For any users, *)
(* profiles, processes and command lines, however their calls interleave     *)
(* (cmd_config_manage, cmd_config_acl, import_config, cmd_configs_list).     *)
THEOREM OutcomeToldHolds == Command!Spec => []OutcomeTold
<1>0. Command!WellFormed
  BY LinesAssumption
<1>1. Command!Init => ToldInv
  BY <1>0, ToldStart
<1>2. ToldInv /\ [Command!Next]_Command!vars => ToldInv'
  <2> SUFFICES ASSUME ToldInv, [Command!Next]_Command!vars PROVE ToldInv'
    OBVIOUS
  <2>1. CASE UNCHANGED Command!vars
    <3>1. shown' = shown /\ profiles' = profiles /\ cmd' = cmd
      BY <2>1 DEF Command!vars
    <3>2. ProfilesOK'
      BY <3>1 DEF ToldInv, ProfilesOK
    <3>3. \A f \in Fronts : CommandOK(cmd'[f])
      BY <3>1 DEF ToldInv
    <3>4. (\A f \in Fronts : CommandOK(cmd[f]))'
      BY <3>3 DEF CommandOK, Working, Looking, ListingOK, Told, Carried, Listed, Command!DoneIsPrefix,
                  Command!ShownTogether, Command!ListComplete, Command!Excused, Command!Listing
    <3> QED BY <3>1, <3>2, <3>4 DEF ToldInv
  <2>2. ASSUME NEW f \in Fronts, Command!Step(f) PROVE ToldInv'
    BY <1>0, <2>2, LookupKeeps, ImportCommandKeeps, OpenKeeps, ApplyKeeps, WaiveKeeps, LookKeeps, FinishKeeps,
       FetchListKeeps, ListProfileKeeps, ListEndsKeeps DEF Command!Step
  <2> QED BY <2>1, <2>2 DEF Command!Next
<1>3. ToldInv => OutcomeTold
  <2> SUFFICES ASSUME ToldInv, NEW f \in Fronts PROVE Told(cmd[f])
    BY DEF OutcomeTold, Command!OutcomeTold, Told
  <2>1. CommandOK(cmd[f]) /\ cmd[f] \in CommandRecord
    BY DEF ToldInv
  <2>2. cmd[f].stage # "end" => cmd[f].out = "none"
    BY <2>1 DEF CommandOK, Working, CommandRecord
  <2> QED BY <2>1, <2>2 DEF CommandOK, Told, Command!DoneIsPrefix, Command!ShownTogether, Command!ListComplete
<1> QED BY <1>1, <1>2, <1>3, PTL DEF Command!Spec
=============================================================================
