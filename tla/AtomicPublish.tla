--------------------------- MODULE AtomicPublish ---------------------------
(***************************************************************************)
(* What the COPC writer promises about the file at the destination path    *)
(* (PendingOutput in copc-writer writer.rs, and CHANGELOG.md): it is       *)
(* always a whole file, the one there was before or one a writer finished; *)
(* it changes by being replaced at once; and a writer that has reported    *)
(* success is not undone by a power loss.                                  *)
(***************************************************************************)
EXTENDS Naturals, Sequences

CONSTANTS Writers, Before

VARIABLES
  past,      \* the files the destination has been, the present one last
  settled,   \* how many of them no power loss can take back
  answer     \* what each writer has reported: "none", "ok", "err", or "gone"

pvars == <<past, settled, answer>>

PInit ==
  /\ past = <<Before>>
  /\ settled = 1
  /\ answer = [w \in Writers |-> "none"]

Publish(w) ==
  /\ answer[w] = "none"
  /\ \A i \in DOMAIN past : past[i] # w
  /\ past' = Append(past, w)
  /\ UNCHANGED <<settled, answer>>

Succeed(w) ==
  /\ answer[w] = "none"
  /\ \E i \in DOMAIN past : past[i] = w
  /\ settled' = Len(past)
  /\ answer' = [answer EXCEPT ![w] = "ok"]
  /\ UNCHANGED past

\* A writer may report an error after it has published its file.
GiveUp(w) ==
  /\ answer[w] = "none"
  /\ answer' \in {[answer EXCEPT ![w] = a] : a \in {"err", "gone"}}
  /\ UNCHANGED <<past, settled>>

LosePower ==
  /\ \E n \in settled..Len(past) : past' = SubSeq(past, 1, n) /\ settled' = n
  /\ \E running \in SUBSET {w \in Writers : answer[w] = "none"} :
       answer' = [w \in Writers |-> IF w \in running THEN "gone" ELSE answer[w]]

PNext ==
  \/ \E w \in Writers : Publish(w) \/ Succeed(w) \/ GiveUp(w)
  \/ LosePower

PSpec == PInit /\ [][PNext]_pvars
=============================================================================
