------------------------------ MODULE Assistant ------------------------------
(* The natural-language assistant (ai/mod.rs) beside the sessions of the     *)
(* database: a prompt is answered from a summary of the catalog and the      *)
(* store, translated by its key words to a statement, and the statement is   *)
(* executed like any other.  A prompt is a record [sql, words, names,        *)
(* vector]: the tree of a text that is SQL already, the key words and the    *)
(* table names it contains, the vector literal it quotes (0 for none).       *)
EXTENDS Database

CONSTANTS Prompts,
          Alphabet      \* every table name there may be, in alphabetical order

ASSUME PromptsAssumption == \A prompt \in Prompts : prompt.sql # <<>> => IsTree(prompt.sql[1])
ASSUME AlphabetAssumption == IsSeq(Alphabet)

VARIABLES said          \* the assistant's last word: [outcome, tree, tables]
avars == <<vars, said>>

Silence == [outcome |-> "none", tree |-> <<>>, tables |-> <<>>]
AInit == Init /\ said = Silence

\* SchemaSummary::from_executor, under the catalog's read lock: table() panics
\* for a table that is registered and not yet in the store.
Listed(alphabet, map) ==
  LET list[i \in 0..Len(alphabet)] ==
        IF i = 0 THEN <<>> ELSE IF alphabet[i] \in DOMAIN map THEN Append(list[i - 1], alphabet[i]) ELSE list[i - 1]
  IN list[Len(alphabet)]
Summary ==
  LET listed == Listed(Alphabet, names)
  IN [i \in DOMAIN listed |-> [name |-> listed[i], columns |-> TableNamed(listed[i]),
                               rows |-> Cardinality(DOMAIN store[names[listed[i]]])]]

Chat(c, prompt) ==
  /\ open /\ session[c].at = "idle" /\ issued < MaxStatements
  /\ issued' = issued + 1
  /\ IF DOMAIN catalog \subseteq DOMAIN store
     THEN Become(c, [Idle EXCEPT !.at = "chat", !.stmt = prompt, !.rows = Summary]) /\ UNCHANGED said
     ELSE said' = [Silence EXCEPT !.outcome = "panicked"] /\ UNCHANGED session
  /\ UNCHANGED <<log, open, catalog, names, store, indexes, vectors, crashes, last, raced>>

(* ------------------------------ Translation ------------------------------ *)
FirstColumn(table, types) ==
  LET at == {i \in DOMAIN table.columns : table.columns[i].type \in types}
  IN IF at = {} THEN {} ELSE {table.columns[Min(at)].name}
VectorColumn_AnyColumn(table) == {table.columns[1].name}
VectorColumn(table)  == FirstColumn(table, {"Vector"})
NumericColumn(table) == FirstColumn(table, {"Integer", "Float"})

\* SELECT * FROM table, and more of it.
AllOf(table) ==
  [kind |-> "Query", body |-> "Select",
   select |-> [distinct |-> "none", projection |-> <<Wildcard>>, from |-> <<TableWithJoins(Table(table.name, ""), <<>>)>>,
               selection |-> NoCond, groupBy |-> [all |-> FALSE, exprs |-> <<>>], having |-> NoCond],
   orderBy |-> <<>>, limit |-> <<<<>>, <<>>>>]
Limited(tree, n) == [tree EXCEPT !.limit[1] = <<Lit(IntVal(n))>>]
Ordered(tree, expr, direction) == [tree EXCEPT !.orderBy = <<[expr |-> expr, direction |-> direction]>>]
Age == Name("age")

\* The table the prompt names, or the first one.
TargetOf(prompt, tables) ==
  LET named == {i \in DOMAIN tables : tables[i].name \in prompt.names}
  IN tables[IF named = {} THEN 1 ELSE Min(named)]

ItemsTree == [kind |-> "CreateTable", name |-> "items", columns |-> <<
  [name |-> "id", type |-> {"INT"}, size |-> {}, options |-> <<"PrimaryKey">>],
  [name |-> "name", type |-> {}, size |-> {}, options |-> <<>>],
  [name |-> "embedding", type |-> {"VECTOR"}, size |-> {3}, options |-> <<>>]>>]

\* translate_to_sql: the first pattern that fits; "tables" asks for no statement.
Translate(prompt, tables) ==
  LET t == TargetOf(prompt, tables)
      Says(words) == prompt.words \cap words # {}
      nearest == Says({"similar", "nearest", "closest", "vector"}) /\ VectorColumn(t) # {}
      count == Says({"how many", "count", "total"})
      older == Says({"older than", "age >"})
      top == Says({"top", "highest", "greatest"}) /\ NumericColumn(t) # {}
      target == Lit(VectorVal(IF prompt.vector = 0 THEN 1 ELSE prompt.vector))
      The(columns) == Col(CHOOSE n \in columns : TRUE)
  IN CASE prompt.sql # <<>> -> prompt.sql[1]
       [] prompt.sql = <<>> /\ tables = <<>> -> ItemsTree
       [] prompt.sql = <<>> /\ tables # <<>> /\ nearest ->
            Limited(Ordered(AllOf(t), <<The(VectorColumn(t)), Sym("<=>"), Sym("["), target, Sym("]")>>, <<>>), 3)
       [] prompt.sql = <<>> /\ tables # <<>> /\ ~nearest /\ count ->
            [AllOf(t) EXCEPT !.select.projection = <<[f |-> "COUNT", arg |-> NoName]>>]
       [] prompt.sql = <<>> /\ tables # <<>> /\ ~nearest /\ ~count /\ older ->
            [AllOf(t) EXCEPT !.select.selection = Cond(Col(Age), ">", Lit(IntVal(30)))]
       [] prompt.sql = <<>> /\ tables # <<>> /\ ~nearest /\ ~count /\ ~older /\ top ->
            Limited(Ordered(AllOf(t), <<The(NumericColumn(t))>>, <<"DESC">>), 5)
       [] OTHER -> Limited(AllOf(t), 10)

\* process_message after the summary: a description of the schema, a SELECT
\* (which changes nothing), or a statement that takes the usual way.
Speak(c) ==
  LET prompt == session[c].stmt  tables == session[c].rows
      tree == Translate(prompt, tables)
      word == [outcome |-> IF prompt.sql = <<>> THEN "asks" ELSE "repeats", tree |-> tree,
               tables |-> [i \in DOMAIN tables |-> tables[i].name]]
  IN /\ session[c].at = "chat"
     /\ CASE "tables" \in prompt.words -> Become(c, Idle) /\ said' = [word EXCEPT !.outcome = "lists", !.tree = <<>>]
          [] "tables" \notin prompt.words /\ tree.kind = "Query" -> Become(c, Idle) /\ said' = word
          [] OTHER -> Become(c, Accepted([tree |-> tree, prepared |-> FALSE, params |-> <<>>])) /\ said' = word
     /\ UNCHANGED <<log, open, catalog, names, store, indexes, vectors, issued, crashes, last, raced>>

ANext == \/ Next /\ said' = (IF open' THEN said ELSE Silence)
         \/ \E c \in Sessions : Speak(c) \/ \E prompt \in Prompts : Chat(c, prompt)
ASpec == AInit /\ [][ANext]_avars

(* ------------------------------- Property -------------------------------- *)
\* What the assistant makes of a prompt the engine can take: it parses, it asks
\* a table that is still registered, it orders by a column of the table and
\* measures distances to a vector; a summary lists tables that exist, also when
\* other sessions create tables meanwhile.
AssistantIsUnderstood ==
  LET text == CHOOSE t \in ConvertQuery(said.tree) : TRUE
      Known(e) == \E column \in ToSet(TableNamed(text.from)) :
                    column.name = e[1].n /\ (Len(e) > 1 => column.type = "Vector")
  IN /\ ToSet(said.tables) \subseteq DOMAIN names
     /\ said.outcome = "asks" /\ said.tree.kind = "Query" =>
          /\ ConvertQuery(said.tree) # {}
          /\ text.from \in DOMAIN names
          /\ \A k \in ToSet(ParseOrderBy(text.order)) : Known(k.expr)
     /\ said.outcome = "asks" /\ said.tree.kind # "Query" => said.tables = <<>> /\ ConvertStatement(said.tree) # {}
=============================================================================
