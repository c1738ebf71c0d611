--------------------------- MODULE MCPublishing ----------------------------
(***************************************************************************)
(* Values for the constants of Publishing that a cfg cannot write down.    *)
(***************************************************************************)
EXTENDS Publishing, TLC

OneAccount  == [k \in Keys |-> "a"]
OwnAccounts == [k \in Keys |-> <<"a", k>>]

Confirms     == [status |-> "published", evidence |-> TRUE, category |-> ""]
Unevidenced  == [status |-> "submitted", evidence |-> FALSE, category |-> ""]
Unknown      == [status |-> "unknown", evidence |-> FALSE, category |-> ""]
Fails(c)     == [status |-> "failed", evidence |-> FALSE, category |-> c]
Blocks(c)    == [status |-> "blocked", evidence |-> FALSE, category |-> c]

AllAnswers  == {Confirms, Unevidenced, Fails("network"), Blocks("rate_limit")}
GoodAnswers == {Confirms, Fails("network")}

WorkerSymmetry == Permutations(Workers)
============================================================================
