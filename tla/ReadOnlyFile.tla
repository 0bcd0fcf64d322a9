---------------------------- MODULE ReadOnlyFile ----------------------------
(***************************************************************************)
(* What bitFS promises whoever reads a mounted file: a read, however long  *)
(* the download takes and whatever else is read meanwhile, comes back with *)
(* exactly the bytes of the file in the range asked for, cut off at the    *)
(* end of the file.  Nothing here knows of pieces, buffers or locks.       *)
(***************************************************************************)
EXTENDS TorrentLayout

CONSTANTS
  Readers,   \* who may read
  Requests   \* what they may ask for: file, offset and size

VARIABLES
  op,        \* "idle", "busy" or "done", per reader
  asked,     \* the last request of each reader
  result     \* what it returned, a function on 0 .. n-1

vars == <<op, asked, result>>

Nothing == [i \in {} |-> 0]

(* The bytes of the file that the request asks for. *)
Slice(r) ==
  LET n == IF r.offset >= FileSize[r.file] THEN 0
           ELSE MinOf(r.size, FileSize[r.file] - r.offset)
  IN  [i \in 0 .. n - 1 |-> FileOffset[r.file] + r.offset + i]

Init ==
  /\ op = [t \in Readers |-> "idle"]
  /\ asked = [t \in Readers |-> [file |-> 0, offset |-> 0, size |-> 0]]
  /\ result = [t \in Readers |-> Nothing]

Ask(t, r) ==
  /\ op[t] # "busy"
  /\ op' = [op EXCEPT ![t] = "busy"]
  /\ asked' = [asked EXCEPT ![t] = r]
  /\ result' = [result EXCEPT ![t] = Nothing]

Answer(t) ==
  /\ op[t] = "busy"
  /\ op' = [op EXCEPT ![t] = "done"]
  /\ result' = [result EXCEPT ![t] = Slice(asked[t])]
  /\ UNCHANGED asked

(* A request answered on the spot. *)
AnswerAtOnce(t, r) ==
  /\ op[t] # "busy"
  /\ op' = [op EXCEPT ![t] = "done"]
  /\ asked' = [asked EXCEPT ![t] = r]
  /\ result' = [result EXCEPT ![t] = Slice(r)]

Next ==
  \E t \in Readers : Answer(t) \/ \E r \in Requests : Ask(t, r) \/ AnswerAtOnce(t, r)

(* Every answer is right, ... *)
Safety == Init /\ [][Next]_vars

(* ... and every read is answered. *)
Spec == Safety /\ \A t \in Readers : WF_vars(Answer(t))
=============================================================================
