------------------------------ MODULE MCRename ------------------------------
(* A folder and a subfolder with a transcript each, and one to come.       *)
EXTENDS Rename, TLC

CONSTANTS r1, r2, top, sub, t1, t2, t3

Folder == t1 :> top @@ t2 :> sub @@ t3 :> top

Case(things) == [t \in Things |-> IF t \in things \union {"command"} THEN 1 ELSE 0]

Cases == {Case({"crash", "session"}), Case({"crash", "elsewhere"}), Case({"handmove", "session"})}
=============================================================================
