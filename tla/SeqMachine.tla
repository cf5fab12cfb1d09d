----------------------------- MODULE SeqMachine -----------------------------
(***************************************************************************)
(* What the interpreter promises, without its preemption machinery: the    *)
(* words of the text array are executed one at a time from the first, each *)
(* by its executor; a word for which execute() returns nullptr ends the    *)
(* run (spec 4.8, steps 1-5), and so does reaching the end of the array.   *)
(* A run ends halted, or faulted when the end was reached inside a greedy  *)
(* bundle (see Machine).  Preemption points, bundles and the counter are   *)
(* not visible here: Machine implements this specification with the       *)
(* mapping given there.                                                    *)
(***************************************************************************)
EXTENDS Executors

CONSTANTS
  InitTexts,   \* the text arrays the loader can produce
  TextWords    \* size of the text array

VARIABLES text, registers, ip, status

svars == << text, registers, ip, status >>

End == TextWords + 1

Init ==
  /\ text \in InitTexts
  /\ registers = [r \in Regs |-> VoidValue]
  /\ ip = 1
  /\ status = "running"

(* Execute the word at ip; nullptr from execute() jumps to the end.        *)
Step ==
  /\ status = "running"
  /\ ip # End
  /\ registers' = Exec(text[ip], registers)
  /\ ip' = IF Halts(text[ip].op) THEN End ELSE ip + 1
  /\ UNCHANGED << text, status >>

(* At the end of the array the run is over.                                *)
Stop ==
  /\ status = "running"
  /\ ip = End
  /\ status' \in {"halted", "fault"}
  /\ UNCHANGED << text, registers, ip >>

Next == Step \/ Stop

Spec == Init /\ [][Next]_svars /\ WF_svars(Next)

=============================================================================
