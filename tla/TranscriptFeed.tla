---------------------------- MODULE TranscriptFeed ----------------------------
(***************************************************************************)
(* What the agent runtime promises to a session recorder (the listener     *)
(* session.rs attaches): the recorder's copy is never more than one change *)
(* behind the transcript.  A change is an appended message, a compaction   *)
(* that leaves a summary marker in front, or a reset; the next change      *)
(* happens only after the listeners were told of the last one, so a prompt *)
(* never reaches the recorder before the cut it must follow.  Which        *)
(* entries a compaction keeps is left to the caller.                       *)
(***************************************************************************)
EXTENDS Integers, Sequences

CONSTANTS Entry, Marker

VARIABLES log, copy

Init == log = <<>> /\ copy = <<>>

Extend   == \E e \in Entry : log' = Append(log, e)
Compact  == log' # <<>> /\ Head(log') = Marker
Clear    == log' = <<>>

Change  == copy = log /\ (Extend \/ Compact \/ Clear) /\ copy' = copy
Publish == copy' = log /\ log' = log

Next == Change \/ Publish

Spec == Init /\ [][Next]_<<log, copy>>
=============================================================================
