----------------------------- MODULE MCAccounts -----------------------------
(***************************************************************************)
(* Registering, logging in (Accounts) and Friendship for TLC.  The three    *)
(* share no variable, so a behaviour explores one of them (`part`) while   *)
(* the others stay as they began: the projections on a module's variables  *)
(* are the behaviours of that module.  They do share model values, which   *)
(* keeps the group of symmetries small.                                    *)
(***************************************************************************)
EXTENDS Accounts, Friendship, TLC

CONSTANTS a1, a2,        \* e-mails, accounts, people
          b1, b2,        \* names, chat servers, workers
          c1, c2,        \* calls of GetVerifyCode, logins
          d1, d2, d3     \* forms

As == {a1, a2}
Bs == {b1, b2}
Cs == {c1, c2}
Ds == {d1, d2, d3}

VARIABLE part

Init == part \in {"registration", "login", "friendship"} /\ RegInit /\ LgInit /\ FrInit
Next ==
    /\ UNCHANGED part
    /\ \/ part = "registration" /\ RegNext /\ UNCHANGED <<lgVars, frVars>>
       \/ part = "login" /\ LgNext /\ UNCHANGED <<regVars, frVars>>
       \/ part = "friendship" /\ FrNext /\ UNCHANGED <<regVars, lgVars>>
Spec == Init /\ [][Next]_<<part, regVars, lgVars, frVars>>

\* Sound: the properties are invariants and action properties.
Symmetry == UNION {Permutations(s) : s \in {As, Bs, Cs, Ds}}
=============================================================================
