--------------------------- MODULE MCSqlStatements ----------------------------
(* Instances of SqlStatements for TLC: a table of two rows, of which Loader has
   inserted r1 (value 0), and statements of every kind and access path. *)
EXTENDS SqlStatements

CONSTANTS r1, r2

OnlyR1 == [r \in Row |-> IF r = r1 THEN 0 ELSE NoRow]

Column(values) == [access |-> "column", rows |-> Row, values |-> values]
ByKey(r) == [access |-> "pk", rows |-> {r}, values |-> Data]

(* SET v = v + 1, on values that must stay in Data. *)
Increment == [d \in Data |-> IF d + 1 \in Data THEN d + 1 ELSE EvalError]

SelectColumn == [kind |-> "select", where |-> Column({0, 1})]
SelectKey == [kind |-> "select", where |-> ByKey(r2)]
UpdateKey == [kind |-> "update", where |-> ByKey(r1), set |-> Increment]
DeleteColumn == [kind |-> "delete", where |-> Column({0})]
InsertSecond == [kind |-> "insert", rows |-> <<<<r2, 1>>>>]
CreateIndex == [kind |-> "createindex"]

Mixture == {SelectColumn, SelectKey, UpdateKey, DeleteColumn, InsertSecond, CreateIndex}

Symmetry == Permutations(Clients)
==============================================================================
