---------------------------- MODULE MCChatServer ----------------------------
(* Instances of ChatServer for TLC. *)
EXTENDS ChatServer, TLC

CONSTANTS v1, v2, s1, s2, u1, u2

OneServer == {v1}
TwoServers == {v1, v2}
TwoSessions == {s1, s2}
TwoUsers == {u1, u2}
FirstUser == {u1}

Login(u, ok) == [kind |-> "login", uid |-> u, valid |-> ok]
Text(u) == [kind |-> "text", uid |-> u, valid |-> TRUE]

\* Two users, also one after the other on the same session, with the right
\* token or a wrong one.
LoginsAndText ==
  [s \in TwoSessions |->
     {Login(u1, TRUE), Login(u2, TRUE), Login(u1, FALSE), Text(u1)}]

\* Two users who write to each other, one of them also what has no handler.
TalkToEachOther ==
  s1 :> {Login(u1, TRUE), Text(u2), [kind |-> "unhandled"]} @@ s2 :> {Login(u2, TRUE), Text(u1)}

\* One user on two sessions.
JustLogin == [s \in TwoSessions |-> {Login(u1, TRUE)}]

\* Sound for the invariants only.
SymmetryOfTwo == Permutations(TwoServers) \cup Permutations(TwoSessions)
=============================================================================
