------------------------------ MODULE Compiler ------------------------------
(***************************************************************************)
(* The SQL front end: psql_prepare of the client, which parses one token   *)
(* stream (src/src/compiler/parser.c) and generates the bytecode of the    *)
(* statement it found (src/src/compiler/generator.c).                      *)
(*                                                                         *)
(* The parser looks one token ahead and never steps back, so a stream is   *)
(* handed to it one token at a time: `at` is the place in parser.c that    *)
(* asks for the next token, and the environment answers with any token, or *)
(* with EOF when the stream is over.  A token is its type and its lexeme;  *)
(* only names and literals have a lexeme that matters.  What the compiler  *)
(* has of the statement so far is `stmt`, in which numbers are ints and no *)
(* longer lexemes; a program is the sequence of instructions generated for *)
(* it, and `session` the programs of the statements the client has         *)
(* accepted since it started.                                              *)
(***************************************************************************)
EXTENDS Integers, Sequences, FiniteSets, SequencesExt

CONSTANTS
    Names,         \* the identifiers of the statements (tables and columns)
    Numbers,       \* the lexemes of the integer literals
    Ints,          \* the ints of the instance
    atoi,          \* the int the C library makes of a lexeme: "007" is "7", and
                   \* a number too large for an int becomes some other int
    Texts,         \* the text values
    MaxColumns,    \* bound: items in one comma-separated list
    MaxStatements  \* bound: statements one client session compiles

ASSUME CompilerAssumption ==
    /\ MaxColumns \in Nat \ {0} /\ MaxStatements \in Nat \ {0}
    /\ "OP_STAR" \notin Names /\ Numbers \cap Texts = {} /\ "none" \notin Numbers
    /\ Ints \subseteq Int /\ {-1, 0, 255} \subseteq Ints /\ atoi \in [Numbers -> Ints]
    /\ Names # {} /\ Numbers # {}  \* or a statement begun may have no end

VARIABLES
    tokens,  \* the tokens read of the current stream, a refused one included
    at,      \* where in the parser the next token is asked for, or the outcome
    stmt,    \* the statement as far as it is known
    session  \* the programs generated so far
vars == <<tokens, at, stmt, session>>

-----------------------------------------------------------------------------
(* Tokens, by their names in tokenizer.h: OP_STAR is *, END_OF_LINE is ;   *)
(* and "EOF" is the NULL of peek and advance.                              *)

Word(type) == [type |-> type, lexeme |-> type]
Name(n)    == [type |-> "name", lexeme |-> n]
Number(n)  == [type |-> "number", lexeme |-> n]
Text(t)    == [type |-> "text", lexeme |-> t]

Words == {"SELECT", "FROM", "INSERT", "INTO", "VALUES", "CREATE", "TABLE", "BEGIN",
          "TRANSACTION", "COMMIT", "VARCHAR", "INT", "OP_STAR", "OPEN_PAREN",
          "CLOSE_PAREN", "QUOTE", "END_OF_LINE", "COMMA", "EOF"}

Tokens == {Word(w) : w \in Words} \cup {Name(n) : n \in Names}
            \cup {Number(n) : n \in Numbers} \cup {Text(t) : t \in Texts}

-----------------------------------------------------------------------------
(* The productions: <<place, type of the token read there, next place>>.   *)
(* A place names the item it is about to read; "...Next" is where a list   *)
(* goes on or ends.  A token with no triple at a place is a parse error.   *)

SelectMoves ==  \* parse_select; the ";" it asks for last is not insisted on
    {<<"statement", "SELECT", "selectList">>, <<"selectList", "OP_STAR", "selectFrom">>,
     <<"selectList", "name", "selectNext">>, <<"selectNext", "COMMA", "selectColumn">>,
     <<"selectColumn", "name", "selectNext">>, <<"selectNext", "FROM", "selectTable">>,
     <<"selectFrom", "FROM", "selectTable">>, <<"selectTable", "name", "selectEnd">>}
    \cup {<<"selectEnd", t.type, "accepted">> : t \in Tokens}

InsertMoves ==  \* parse_insert
    {<<"statement", "INSERT", "insertInto">>, <<"insertInto", "INTO", "insertTable">>,
     <<"insertTable", "name", "insertShape">>, <<"insertShape", "OPEN_PAREN", "insertColumn">>,
     <<"insertColumn", "name", "insertNext">>, <<"insertNext", "COMMA", "insertColumn">>,
     <<"insertNext", "CLOSE_PAREN", "insertValues">>, <<"insertShape", "VALUES", "insertOpen">>,
     <<"insertValues", "VALUES", "insertOpen">>, <<"insertOpen", "OPEN_PAREN", "value">>,
     <<"value", "number", "valueNext">>, <<"value", "text", "valueNext">>,
     <<"valueNext", "COMMA", "value">>, <<"valueNext", "CLOSE_PAREN", "insertEnd">>,
     <<"insertEnd", "END_OF_LINE", "accepted">>}

CreateMoves ==  \* parse_create
    {<<"statement", "CREATE", "createWord">>, <<"createWord", "TABLE", "createTable">>,
     <<"createTable", "name", "createOpen">>, <<"createOpen", "OPEN_PAREN", "createColumn">>,
     <<"createColumn", "name", "columnType">>, <<"columnType", "INT", "createNext">>,
     <<"columnType", "VARCHAR", "varcharNext">>, <<"varcharNext", "OPEN_PAREN", "length">>,
     <<"length", "number", "lengthEnd">>, <<"lengthEnd", "CLOSE_PAREN", "createNext">>,
     <<"varcharNext", "COMMA", "createColumn">>, <<"varcharNext", "CLOSE_PAREN", "createEnd">>,
     <<"createNext", "COMMA", "createColumn">>, <<"createNext", "CLOSE_PAREN", "createEnd">>,
     <<"createEnd", "END_OF_LINE", "accepted">>}

\* Mutant: TRANSACTION is not asked for.
ControlMovesShort ==
    {<<"statement", "BEGIN", "controlEnd">>, <<"statement", "COMMIT", "controlEnd">>,
     <<"controlEnd", "END_OF_LINE", "accepted">>}
ControlMoves ==  \* parse_begin and parse_commit
    {<<"statement", "BEGIN", "beginWord">>, <<"beginWord", "TRANSACTION", "controlEnd">>,
     <<"statement", "COMMIT", "controlEnd">>, <<"controlEnd", "END_OF_LINE", "accepted">>}

Moves == SelectMoves \cup InsertMoves \cup CreateMoves \cup ControlMoves

\* Mutant: the list loop leaves at ")" before it has read an item.
GoesOnEmptyList(place, t) ==
    {m[3] : m \in {x \in Moves : x[1] = place /\ x[2] = t.type}}
      \cup (IF place = "value" /\ t.type = "CLOSE_PAREN" THEN {"insertEnd"} ELSE {})
Goes(place, t) == {m[3] : m \in {x \in Moves : x[1] = place /\ x[2] = t.type}}

Outcomes == {"accepted", "rejected"}
Places   == {m[1] : m \in Moves} \cup Outcomes

-----------------------------------------------------------------------------
(* What reading token t at a place adds to the statement.                  *)

NoStatement == [kind |-> "none", table |-> "none", columns |-> <<>>, values |-> <<>>]

DefaultLength == 255  \* of a VARCHAR with no length; an INT has -1

Column(name) == [name |-> name, type |-> "none", length |-> -1]

\* a literal of a value list: an integer goes through atoi
Value(t) == IF t.type = "number" THEN [type |-> "integer", int_value |-> atoi[t.lexeme]]
                                 ELSE [type |-> "text", text_value |-> t.lexeme]

\* the column whose type is being read, with what is now known of it
\* (mutant: the length is not set)
LastColumnUnsized(s, type, length) == [s EXCEPT !.columns[Len(s.columns)].type = type]
LastColumn(s, type, length) ==
    [s EXCEPT !.columns[Len(s.columns)].type = type,
              !.columns[Len(s.columns)].length = length]

Noted(s, place, t) ==
    CASE place = "statement" -> [s EXCEPT !.kind = t.type]
      [] place \in {"selectTable", "insertTable", "createTable"} -> [s EXCEPT !.table = t.lexeme]
      [] place \in {"selectList", "selectColumn", "insertColumn", "createColumn"} ->
           [s EXCEPT !.columns = Append(@, Column(t.lexeme))]
      [] place = "value" -> [s EXCEPT !.values = Append(@, Value(t))]
      [] place = "columnType" ->
           LastColumn(s, t.type, IF t.type = "INT" THEN -1 ELSE DefaultLength)
      [] place = "length" -> LastColumn(s, "VARCHAR", atoi[t.lexeme])
      [] OTHER -> s

-----------------------------------------------------------------------------
(* The generator.                                                          *)

Instr(op, p1, p2, str) == [op |-> op, p1 |-> p1, p2 |-> p2, str |-> str]
Halt   == Instr("HALT", 0, 0, "NULL")
Commit == Instr("COMMIT", 0, 0, "NULL")
Begin  == Instr("BEGIN_TXN", 0, 0, "NULL")

GenerateSelect(s) ==
    <<Instr("OPEN_TABLE", 0, 0, s.table)>>
      \o [i \in DOMAIN s.columns |-> IF s.columns[i].name = "OP_STAR" THEN Instr("SEARCH", -1, 0, "NULL")
                                     ELSE Instr("SEARCH", i - 1, 0, s.columns[i].name)]
      \o <<Instr("RETURN_ROW", 0, 0, "NULL"), Halt>>

\* an integer goes with its column's name, a text takes the name's place
InsertOf(i, column, value) ==
    IF value.type = "integer" THEN Instr("INSERT", i - 1, value.int_value, column)
                              ELSE Instr("INSERT", i - 1, 0, value.text_value)

\* values[i] past the end of the array: an integer or a text made of whatever
\* is there, or a type that is neither and emits nothing; or the text's pointer
\* leads nowhere and the client dies (see Generate)
Overread(i, column) ==
    {<<Instr("INSERT", i - 1, n, column)>> : n \in Ints}
      \cup {<<Instr("INSERT", i - 1, 0, "garbage")>>, <<>>}

InsertChoices(s, i) ==
    IF i <= Len(s.values) THEN {<<InsertOf(i, s.columns[i].name, s.values[i])>>}
                          ELSE Overread(i, s.columns[i].name)

\* one instruction per *column*, so values with no column are not stored
InsertPrograms(s) ==
    LET columns == DOMAIN s.columns
        choices == {f \in [columns -> UNION {InsertChoices(s, i) : i \in columns}] :
                      \A i \in columns : f[i] \in InsertChoices(s, i)}
    IN  {<<Begin, Instr("OPEN_TABLE", 0, 0, s.table)>> \o FlattenSeq(f) \o <<Commit, Halt>> : f \in choices}

\* Mutant: the length of a column is not emitted.
GenerateCreateUnsized(s) ==
    <<Instr("CREATE_TABLE", 0, 0, s.table)>>
      \o [i \in DOMAIN s.columns |-> Instr("DEFINE_SCHEMA", IF s.columns[i].type = "INT" THEN 1 ELSE 2,
                                           0, s.columns[i].name)]
      \o <<Commit, Halt>>
GenerateCreate(s) ==
    <<Instr("CREATE_TABLE", 0, 0, s.table)>>
      \o [i \in DOMAIN s.columns |-> Instr("DEFINE_SCHEMA", IF s.columns[i].type = "INT" THEN 1 ELSE 2,
                                           s.columns[i].length, s.columns[i].name)]
      \o <<Commit, Halt>>

GenerateControl(s) == <<IF s.kind = "BEGIN" THEN Begin ELSE Commit, Halt>>

\* the programs generate_code may return for statement s
Programs(s) ==
    CASE s.kind = "SELECT" -> {GenerateSelect(s)}
      [] s.kind = "INSERT" -> InsertPrograms(s)
      [] s.kind = "CREATE" -> {GenerateCreate(s)}
      [] s.kind \in {"BEGIN", "COMMIT"} -> {GenerateControl(s)}

-----------------------------------------------------------------------------
Init ==
    /\ tokens = <<>> /\ at = "statement"
    /\ stmt = NoStatement /\ session = <<>>

\* a line of the session is being parsed, or may be started
Parsing == at \notin Outcomes /\ (at = "statement" => Len(session) < MaxStatements)

\* the list being read has room for one more item
ListHasRoom == Len(IF at = "valueNext" THEN stmt.values ELSE stmt.columns) < MaxColumns

\* the parser takes token t, which one of its productions allows here
Take(t) ==
    /\ Parsing
    /\ t.type = "COMMA" => ListHasRoom
    /\ \E place \in Goes(at, t) : at' = place
    /\ tokens' = Append(tokens, t)
    /\ stmt' = Noted(stmt, at, t)
    /\ UNCHANGED session

\* a token (or the end of the stream) no production allows: parse error, NULL
Reject(t) ==
    /\ Parsing /\ Goes(at, t) = {}
    /\ at' = "rejected" /\ tokens' = Append(tokens, t)
    /\ stmt' = NoStatement
    /\ UNCHANGED session

\* psql_prepare with the statement it was given: generate_code; what follows
\* the statement in the stream is dropped and the next line starts afresh
Generate ==
    /\ at = "accepted"
    /\ \/ \E program \in Programs(stmt) : session' = Append(session, program)
       \/ /\ stmt.kind = "INSERT" /\ Len(stmt.columns) > Len(stmt.values)
          /\ session' = <<>>  \* generate_insert reads past the values and the client dies
    /\ tokens' = <<>> /\ at' = "statement" /\ stmt' = NoStatement

\* psql_prepare with no statement: the line is given up
GiveUp ==
    /\ at = "rejected"
    /\ tokens' = <<>> /\ at' = "statement" /\ stmt' = NoStatement
    /\ UNCHANGED session

\* the user leaves at the prompt; another client starts with nothing compiled
Exit ==
    /\ at = "statement" /\ session # <<>>
    /\ session' = <<>>
    /\ UNCHANGED <<tokens, at, stmt>>

Next ==
    \/ \E t \in Tokens : Take(t) \/ Reject(t)
    \/ Generate
    \/ GiveUp
    \/ Exit

Spec == Init /\ [][Next]_vars

-----------------------------------------------------------------------------
(* Reference: the statements, written from their abstract syntax.  A       *)
(* sentence is a statement as written, its numbers lexemes and the lengths *)
(* it leaves out "none"; its meaning is the statement the compiler works   *)
(* on, its numbers ints.                                                   *)

Lists(S, lo) == UNION {[1..n -> S] : n \in lo..MaxColumns}

PlainColumns(none) == [name : Names, type : {"none"}, length : {none}]
StarColumn(none)   == [name |-> "OP_STAR", type |-> "none", length |-> none]
TypedColumns(none, lengths) ==
    [name : Names, type : {"INT"}, length : {none}] \cup [name : Names, type : {"VARCHAR"}, length : lengths]

StatementsOf(none, lengths, literals) ==
    [kind : {"SELECT"}, table : Names, values : {<<>>},
       columns : Lists(PlainColumns(none), 1) \cup {<<StarColumn(none)>>}]
    \cup [kind : {"INSERT"}, table : Names, columns : Lists(PlainColumns(none), 0), values : Lists(literals, 1)]
    \cup [kind : {"CREATE"}, table : Names, columns : Lists(TypedColumns(none, lengths), 1), values : {<<>>}]
    \cup [kind : {"BEGIN", "COMMIT"}, table : {"none"}, columns : {<<>>}, values : {<<>>}]

Literals == {Number(n) : n \in Numbers} \cup {Text(t) : t \in Texts}
Values   == {Value(t) : t \in Literals}

Sentences  == StatementsOf("none", Numbers \cup {"none"}, Literals)
Statements == StatementsOf(-1, {atoi[n] : n \in Numbers} \cup {DefaultLength}, Values)

LengthMeant(c) ==
    CASE c.length # "none"                        -> atoi[c.length]
      [] c.length = "none" /\ c.type = "VARCHAR"  -> DefaultLength
      [] c.length = "none" /\ c.type # "VARCHAR"  -> -1

ColumnMeant(c) == [c EXCEPT !.length = LengthMeant(c)]

Meaning(w) == [w EXCEPT !.columns = [i \in DOMAIN w.columns |-> ColumnMeant(w.columns[i])],
                        !.values = [i \in DOMAIN w.values |-> Value(w.values[i])]]

\* the spellings of the items of a list, joined by commas
Joined(spellings) ==
    FlattenSeq([i \in DOMAIN spellings |-> IF i = 1 THEN spellings[i] ELSE <<Word("COMMA")>> \o spellings[i]])

Written(words) == [i \in DOMAIN words |-> Word(words[i])]
InParens(spelling) == Written(<<"OPEN_PAREN">>) \o spelling \o Written(<<"CLOSE_PAREN">>)

Definition(c) ==
    <<Name(c.name), Word(c.type)>> \o (IF c.length = "none" THEN <<>> ELSE InParens(<<Number(c.length)>>))

\* how sentence w is written, up to the token that closes it
Spelling(w) ==
    LET names == Joined([i \in DOMAIN w.columns |->
                           IF w.columns[i].name = "OP_STAR" THEN Written(<<"OP_STAR">>) ELSE <<Name(w.columns[i].name)>>])
    IN CASE w.kind = "SELECT" ->
              Written(<<"SELECT">>) \o names \o Written(<<"FROM">>) \o <<Name(w.table)>>
         [] w.kind = "INSERT" ->
              Written(<<"INSERT", "INTO">>) \o <<Name(w.table)>>
                \o (IF w.columns = <<>> THEN <<>> ELSE InParens(names))
                \o Written(<<"VALUES">>) \o InParens(Joined([i \in DOMAIN w.values |-> <<w.values[i]>>]))
         [] w.kind = "CREATE" ->
              Written(<<"CREATE", "TABLE">>) \o <<Name(w.table)>>
                \o InParens(Joined([i \in DOMAIN w.columns |-> Definition(w.columns[i])]))
         [] w.kind = "BEGIN"  -> Written(<<"BEGIN", "TRANSACTION">>)
         [] w.kind = "COMMIT" -> Written(<<"COMMIT">>)

\* every statement is closed by ";", but a SELECT by any token or the end
Closers(w) == IF w.kind = "SELECT" THEN Tokens ELSE {Word("END_OF_LINE")}

SpellingTable == [w \in Sentences |-> Spelling(w)]
ProgramTable  == [s \in Statements |-> Programs(s)]

\* what may be read with a statement still possible
Beginnings ==
    (UNION {{SubSeq(SpellingTable[w], 1, n) : n \in 0..Len(SpellingTable[w])} : w \in Sentences})
    \cup (UNION {{Append(SpellingTable[w], c) : c \in Closers(w)} : w \in Sentences})

-----------------------------------------------------------------------------
(* Properties.                                                             *)

Instructions ==
    [op : {"OPEN_TABLE", "SEARCH", "RETURN_ROW", "HALT", "COMMIT", "BEGIN_TXN", "INSERT",
           "CREATE_TABLE", "DEFINE_SCHEMA"},
     p1 : {-1, 1, 2} \cup 0..(MaxColumns - 1),  \* the star, a type, a position
     p2 : Ints,
     str : Names \cup Texts \cup {"NULL", "garbage"}]

\* The types of the variables; a program has at most its four fixed
\* instructions and one for each column.
TypeOK ==
    /\ \A i \in DOMAIN tokens : tokens[i] \in Tokens
    /\ at \in Places
    /\ at = "accepted" => stmt \in Statements
    /\ Len(session) <= MaxStatements
    /\ \A i \in DOMAIN session :
          /\ Len(session[i]) \in 2..(4 + MaxColumns)
          /\ \A j \in DOMAIN session[i] : session[i][j] \in Instructions

\* What the parser accepts is what was written: the tokens it read are those of
\* a sentence, and the tree it returns is the sentence's meaning (parse_select,
\* parse_insert, parse_create, parse_begin, parse_commit), so no column, value,
\* length or table of the text is lost, moved or made up.  Of a number the tree
\* has what atoi makes of it and no more (parser.c:186, 268): two texts may
\* well have one meaning.
AcceptedIsSpelled ==
    at = "accepted" =>
        \E w \in Sentences :
            /\ Front(tokens) = SpellingTable[w]
            /\ stmt = Meaning(w)
            /\ Last(tokens) \in Closers(w)

\* The parser refuses a stream at its first token with which no statement can
\* begin that way: not a token later, as long as a statement is still possible
\* it goes on, and not a token earlier (match, expect and the list loops).
RefusedAtFirstWrongToken ==
    /\ at # "rejected" => tokens \in Beginnings
    /\ at = "rejected" => Front(tokens) \in Beginnings /\ tokens \notin Beginnings

\* A program is generated for one statement: no two statements the parser can
\* return share a program, where a statement's numbers are the ints of its
\* tree.  Texts whose numbers atoi takes for one int are one statement here.
\* Of INSERTs this holds only of the table: a text value takes its column's
\* name out of the instruction (see InsertOf), and values past the column list
\* are not in the program at all.
ProgramTellsStatement ==
    at = "accepted" =>
        \A s \in Statements :
            ProgramTable[s] \cap ProgramTable[stmt] # {} =>
                IF stmt.kind = "INSERT" THEN s.kind = "INSERT" /\ s.table = stmt.table ELSE s = stmt

\* Statement i of the session stands between a BEGIN TRANSACTION of the user
\* and the COMMIT the user has yet to write.
InUsersTransaction(i) ==
    \E b \in 1..(i - 1) :
        /\ session[b] = <<Begin, Halt>>
        /\ \A k \in b..i : session[k] # <<Commit, Halt>>

\* The statements written between BEGIN TRANSACTION and COMMIT belong to that
\* transaction, as in test/insert_statement.txt:1-4 and
\* test/create_statement.txt:1-8: none of their programs starts one
\* (opcodes.h:33 "Start a transaction") or commits (opcodes.h:34).
UsersTransactionHolds ==
    \A i \in DOMAIN session :
        InUsersTransaction(i) /\ session[i] # <<Begin, Halt>> =>
            \A j \in DOMAIN session[i] : session[i][j].op \notin {"BEGIN_TXN", "COMMIT"}
=============================================================================
