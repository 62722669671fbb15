------------------------------ MODULE MCCommands ------------------------------
\* Instances of Commands for TLC: one request with two commands (set_commands
\* over two controllers), and one request with one command.
EXTENDS Commands, TLC

CONSTANTS c1, c2, q1

OneBatch == (c1 :> q1 @@ c2 :> q1)
OneCommand == (c1 :> q1)

\* The daemon of the repository, and clients that state what they like.
NoStatus == [r \in Results |-> {"none"}]
AnyAnswer == [r \in Results |-> IF r = "applied" THEN {"none", "ok"} ELSE {"error", "other"}]
=============================================================================
