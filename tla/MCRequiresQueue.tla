-------------------------- MODULE MCRequiresQueue --------------------------
(* Instance of RequiresQueue for TLC: two pairs whose indexes differ, two   *)
(* slot names, and values that filter_ctrl_chars() changes.                 *)
EXTENDS RequiresQueueBoard, StringUtils

MCTypeGroups == {<<1, 1>>, <<1, 5>>}
MCNames == {"password", "challenge"}
MCInputs == {<<>>, <<"ascii">>, <<"ascii", "nl">>, <<"nl">>}
MCValues == {filter_ctrl_chars(v, TRUE) : v \in MCInputs}
MCFilter == [v \in MCInputs |-> filter_ctrl_chars(v, TRUE)]
MCEmpty == <<>>
=============================================================================
