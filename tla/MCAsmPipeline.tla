--------------------------- MODULE MCAsmPipeline ---------------------------
(***************************************************************************)
(* Every node list of up to three nodes over a small alphabet: functions   *)
(* plain, entry_point or extern, with empty bodies, a plain instruction,   *)
(* li of a literal that needs a high part, calls and atoms naming each     *)
(* node index; labels plain or extern, strings with and without "* N"      *)
(* (and with a non-integer N), and atoms.                                  *)
(***************************************************************************)
EXTENDS AsmPipeline, TLC

Fn(attrs, body) == [kind |-> "fn", attrs |-> attrs, nameLen |-> 1, body |-> body,
                    vtype |-> "none", value |-> << >>]

Lbl(attrs, vtype, value) == [kind |-> "label", attrs |-> attrs, nameLen |-> 2, body |-> << >>,
                             vtype |-> vtype, value |-> value]

Tok(t, n) == [tok |-> t, n |-> n]

FnBodies == { << >>, << Ins("OP", 0) >>, << Ins("LI", 1000) >>, << Ins("CALL", 1) >>,
              << Ins("ATOM", 2) >>, << Ins("ATOM", 3) >>, << Ins("OP", 0), Ins("CALL", 3) >> }

LabelValues == { <<"string", << Tok("str", 2) >> >>,
                 <<"string", << Tok("str", 2), Tok("mul", 3) >> >>,
                 <<"string", << Tok("str", 1), Tok("mul", NonInt) >> >>,
                 <<"atom",   << Tok("str", 3) >> >> }

NodeAlphabet ==
  { Fn(a, b) : a \in {{}, {"entry_point"}, {"extern"}}, b \in FnBodies }
  \cup { Lbl(a, v[1], v[2]) : a \in {{}, {"extern"}}, v \in LabelValues }

MCPrograms == UNION { [1..n -> NodeAlphabet] : n \in 1..3 }

=============================================================================
