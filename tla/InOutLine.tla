------------------------------ MODULE InOutLine ------------------------------
(***************************************************************************)
(* What ecs/AInOutComponent promises those who post to it: one line of     *)
(* messages, answered one at a time in the order they were accepted.  A    *)
(* closed line accepts nothing more and is over, once, with the last       *)
(* answer.  InOut implements this module.                                  *)
(***************************************************************************)
EXTENDS Sequences

CONSTANT Msg

VARIABLES
  line,     \* the messages accepted and not yet answered
  sent,     \* the io object was given the first of them
  closing,  \* no message is accepted
  open,     \* the end of the line has not been announced
  answers   \* the done() calls under way, with their results

vars == <<line, sent, closing, open, answers>>

Answers == Msg \X {"ok", "error", "intr"}

Init == line = <<>> /\ sent = FALSE /\ closing = TRUE /\ open = FALSE /\ answers = {}

Free(m) ==
  /\ \A i \in DOMAIN line : line[i] # m
  /\ \A a \in answers : a[1] # m

Open ==
  /\ ~open
  /\ open' = TRUE /\ closing' = FALSE
  /\ UNCHANGED <<line, sent, answers>>

Accept(m) ==
  /\ ~closing /\ Free(m)
  /\ line' = Append(line, m)
  /\ UNCHANGED <<sent, closing, open, answers>>

Refuse(m) ==
  /\ closing /\ Free(m)
  /\ answers' = answers \cup {<<m, "intr">>}
  /\ UNCHANGED <<line, sent, closing, open>>

Close ==
  /\ closing' = TRUE
  /\ open' = (open /\ line # <<>>)
  /\ UNCHANGED <<line, sent, answers>>

Send ==
  /\ line # <<>> /\ ~sent
  /\ sent' = TRUE
  /\ UNCHANGED <<line, closing, open, answers>>

(* A message the io object was given has the result of the io object; only *)
(* a closed line gives up on another one it has accepted.                  *)
Answer(result) ==
  /\ line # <<>>
  /\ IF result = "intr" THEN closing /\ ~sent ELSE sent
  /\ sent' = FALSE
  /\ answers' = answers \cup {<<Head(line), result>>}
  /\ line' = Tail(line)
  /\ open' = (open /\ ~(closing /\ Tail(line) = <<>>))
  /\ UNCHANGED closing

Return(a) ==
  /\ a \in answers
  /\ answers' = answers \ {a}
  /\ UNCHANGED <<line, sent, closing, open>>

Next ==
  \/ Open \/ Close \/ Send
  \/ \E m \in Msg : Accept(m) \/ Refuse(m)
  \/ \E result \in {"ok", "error", "intr"} : Answer(result)
  \/ \E a \in Answers : Return(a)

Spec == Init /\ [][Next]_vars
=============================================================================
