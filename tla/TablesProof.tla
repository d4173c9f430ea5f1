---------------------------- MODULE TablesProof ----------------------------
(***************************************************************************)
(* What is proved of the tables under both dialects: a process serves only *)
(* on complete tables (SchemaSetup), a statement keeps its literals        *)
(* (Placeholders), and what Migration keeps for any rows, versions and     *)
(* interruptions.                                                          *)
(***************************************************************************)
EXTENDS SchemaSetup, Placeholders, Migration, SequenceTheorems, TLAPS

----------------------------------------------------------------------------
(* The tables at a start                                                   *)

SetupTypeOK ==
    /\ scripted \in BOOLEAN
    /\ tables \subseteq AllTables /\ columns \subseteq AllColumns
    /\ phase \in [Procs -> {"script", "alter", "up", "down"}]
    /\ step \in [Procs -> Nat]
    /\ faults \in 0..MaxFaults

\* What a process that is starting has behind it.
Reached(p) ==
    /\ phase[p] = "script" =>
           step[p] \in AllTables /\ 1..(step[p] - 1) \subseteq tables
    /\ phase[p] = "alter" =>
           /\ step[p] \in 1..(NColumns + 1)
           /\ tables = AllTables /\ 1..(step[p] - 1) \subseteq columns
    /\ phase[p] = "up" => tables = AllTables /\ columns = AllColumns

\* The inductive invariant: it holds of every process at every point, since
\* tables and columns come and never go.
SetupInv == SetupTypeOK /\ \A p \in Procs : Reached(p)

\* A start finds no process beyond its beginning.
LEMMA SetupInvInit == SetupInit => SetupInv
  BY SetupAssumption DEF SetupInit, SetupInv, SetupTypeOK, Reached, AllTables, AllColumns

\* A step of one process takes nothing from the others: what they have
\* reached stays reached.
LEMMA OthersReached ==
  ASSUME SetupInv, NEW p \in Procs, NEW q \in Procs \ {p}, NEW to, NEW n,
         Proceed(p, to, n), tables \subseteq tables', columns \subseteq columns',
         tables' \subseteq AllTables, columns' \subseteq AllColumns
  PROVE  Reached(q)'
<1>1. phase'[q] = phase[q] /\ step'[q] = step[q]
  BY DEF SetupInv, SetupTypeOK, Proceed
<1>2. Reached(q)
  BY DEF SetupInv
<1> QED
  BY <1>1, <1>2 DEF Reached

\* The types of the place a process goes on to.
LEMMA ProceedType ==
  ASSUME SetupTypeOK, NEW p \in Procs, NEW to \in {"script", "alter", "up", "down"},
         NEW n \in Nat, Proceed(p, to, n)
  PROVE  /\ phase' \in [Procs -> {"script", "alter", "up", "down"}]
         /\ step' \in [Procs -> Nat] /\ scripted' \in BOOLEAN
         /\ phase'[p] = to /\ step'[p] = n
  BY DEF SetupTypeOK, Proceed

\* What every step of one process has to show: its types, and what the
\* process has reached itself.
LEMMA SetupStepInv ==
  ASSUME SetupInv, NEW p \in Procs, NEW to \in {"script", "alter", "up", "down"},
         NEW n \in Nat, Proceed(p, to, n),
         tables \subseteq tables', columns \subseteq columns',
         tables' \subseteq AllTables, columns' \subseteq AllColumns,
         faults' \in 0..MaxFaults, Reached(p)'
  PROVE  SetupInv'
<1>1. SetupTypeOK'
  BY ProceedType DEF SetupInv, SetupTypeOK
<1>2. \A q \in Procs : Reached(q)'
  BY OthersReached
<1> QED
  BY <1>1, <1>2 DEF SetupInv

\* The script creates the tables one by one, or all of them at once.
LEMMA RunScriptInv ==
  ASSUME SetupInv, NEW p \in Procs, RunScript(p)
  PROVE  SetupInv'
<1> USE DEF AllTables, AllColumns
<1>1. SetupTypeOK /\ phase[p] = "script" /\ Reached(p) /\ faults' = faults
  BY DEF SetupInv, RunScript
<1>2. step[p] \in 1..NTables /\ 1..(step[p] - 1) \subseteq tables
  BY <1>1 DEF Reached
<1>3. /\ tables \subseteq AllTables /\ columns \subseteq AllColumns
      /\ faults \in 0..MaxFaults /\ NTables \in Nat \ {0}
  BY <1>1, SetupAssumption DEF SetupTypeOK
<1>4. CASE scripted
  <2>1. Create(AllTables) /\ Proceed(p, "alter", 1)
    BY <1>4 DEF RunScript
  <2>2. /\ tables' = AllTables /\ columns \subseteq columns'
        /\ columns' \subseteq AllColumns
    BY <2>1, <1>3 DEF Create
  <2>3. phase'[p] = "alter" /\ step'[p] = 1
    BY <1>1, <2>1, ProceedType
  <2>4. Reached(p)'
    BY <2>2, <2>3, SetupAssumption DEF Reached
  <2> QED
    BY <1>1, <1>3, <2>1, <2>2, <2>4, SetupStepInv
<1>5. CASE ~scripted
  <2>1. Create({step[p]})
    BY <1>5 DEF RunScript
  <2>2. /\ tables' = tables \union {step[p]} /\ columns \subseteq columns'
        /\ columns' \subseteq AllColumns /\ tables' \subseteq AllTables
    BY <2>1, <1>2, <1>3 DEF Create
  <2>3. 1..step[p] \subseteq tables'
    BY <1>2, <2>2
  <2>4. CASE step[p] = NTables
    <3>1. Proceed(p, "alter", 1)
      BY <1>5, <2>4 DEF RunScript
    <3>2. phase'[p] = "alter" /\ step'[p] = 1
      BY <1>1, <3>1, ProceedType
    <3>3. tables' = AllTables
      BY <2>2, <2>3, <2>4
    <3>4. Reached(p)'
      BY <3>2, <3>3, SetupAssumption DEF Reached
    <3> QED
      BY <1>1, <1>3, <2>2, <3>1, <3>4, SetupStepInv
  <2>5. CASE step[p] # NTables
    <3>1. Proceed(p, "script", step[p] + 1)
      BY <1>5, <2>5 DEF RunScript
    <3>2. step[p] + 1 \in 1..NTables /\ step[p] + 1 \in Nat /\ (step[p] + 1) - 1 = step[p]
      BY <1>2, <1>3, <2>5
    <3>3. phase'[p] = "script" /\ step'[p] = step[p] + 1
      BY <1>1, <3>1, <3>2, ProceedType
    <3>4. Reached(p)'
      BY <3>2, <3>3, <2>3 DEF Reached
    <3> QED
      BY <1>1, <1>3, <2>2, <3>1, <3>2, <3>4, SetupStepInv
  <2> QED
    BY <2>4, <2>5
<1> QED
  BY <1>4, <1>5

\* A column is there, whoever added it, and the next one is due.
LEMMA ColumnInv ==
  ASSUME SetupInv, NEW p \in Procs, ColumnThere(p) \/ AddColumn(p)
  PROVE  SetupInv'
<1> USE DEF AllTables, AllColumns
<1>1. SetupTypeOK /\ phase[p] = "alter" /\ Reached(p) /\ faults' = faults /\ tables' = tables
  BY DEF SetupInv, ColumnThere, AddColumn, Altering
<1>2. /\ step[p] \in 1..NColumns /\ 1..(step[p] - 1) \subseteq columns
      /\ tables = AllTables
  BY <1>1 DEF Reached, ColumnThere, AddColumn, Altering
<1>3. columns' = columns \union {step[p]}
  BY DEF ColumnThere, AddColumn
<1>4. /\ columns \subseteq AllColumns /\ faults \in 0..MaxFaults /\ NColumns \in Nat
  BY <1>1, SetupAssumption DEF SetupTypeOK
<1>5. Proceed(p, "alter", step[p] + 1)
  BY DEF ColumnThere, AddColumn
<1>6. step[p] + 1 \in Nat /\ step[p] + 1 \in 1..(NColumns + 1) /\ (step[p] + 1) - 1 = step[p]
  BY <1>2, <1>4
<1>7. phase'[p] = "alter" /\ step'[p] = step[p] + 1
  BY <1>1, <1>5, <1>6, ProceedType
<1>8. 1..step[p] \subseteq columns'
  BY <1>2, <1>3
<1>9. Reached(p)'
  BY <1>1, <1>2, <1>6, <1>7, <1>8 DEF Reached
<1>10. columns' \subseteq AllColumns
  BY <1>2, <1>3, <1>4
<1> QED
  BY <1>1, <1>2, <1>3, <1>4, <1>5, <1>6, <1>9, <1>10, SetupStepInv

\* A process that goes down, or starts anew, has nothing to show.
LEMMA DownInv ==
  ASSUME SetupInv, NEW p \in Procs,
         AlterFails(p) \/ ScriptFails(p) \/ CrashStarting(p) \/ Restart(p)
  PROVE  SetupInv'
<1> USE DEF AllTables, AllColumns
<1>1. /\ SetupTypeOK /\ tables' = tables
      /\ columns' = columns \/ (Altering(p) /\ columns' = columns \union {step[p]})
  BY DEF SetupInv, AlterFails, ScriptFails, CrashStarting, Restart
<1>2. columns \subseteq columns' /\ columns' \subseteq AllColumns
  BY <1>1 DEF SetupTypeOK, Altering
<1>3. faults' \in 0..MaxFaults
  BY <1>1, SetupAssumption DEF SetupTypeOK, AlterFails, ScriptFails, CrashStarting, Restart
<1>4. Proceed(p, "down", 1) \/ Proceed(p, "script", 1)
  BY DEF AlterFails, ScriptFails, CrashStarting, Restart
<1>5. /\ Proceed(p, "down", 1) => phase'[p] = "down" /\ step'[p] = 1
      /\ Proceed(p, "script", 1) => phase'[p] = "script" /\ step'[p] = 1
  BY <1>1, ProceedType
<1>6. Reached(p)'
  BY <1>4, <1>5, SetupAssumption DEF Reached
<1>7. tables \subseteq tables' /\ tables' \subseteq AllTables
  BY <1>1 DEF SetupTypeOK
<1> QED
  BY <1>2, <1>3, <1>4, <1>6, <1>7, SetupStepInv

\* A process that has all its tables and columns behind it serves.
LEMMA ServeInv ==
  ASSUME SetupInv, NEW p \in Procs, Serve(p)
  PROVE  SetupInv'
<1> USE DEF AllTables, AllColumns
<1>1. SetupTypeOK /\ Reached(p) /\ phase[p] = "alter" /\ ~(step[p] \in 1..NColumns)
  BY DEF SetupInv, Serve
<1>2. /\ step[p] \in 1..(NColumns + 1) /\ 1..(step[p] - 1) \subseteq columns
      /\ tables = AllTables /\ NColumns \in Nat
  BY <1>1, SetupAssumption DEF Reached
<1>3. step[p] = NColumns + 1
  BY <1>1, <1>2
<1>4. columns = AllColumns
  <2>1. step[p] - 1 = NColumns
    BY <1>2, <1>3
  <2> QED
    BY <1>1, <1>2, <2>1 DEF SetupTypeOK
<1>5. /\ Proceed(p, "up", 1) /\ tables' = tables /\ columns' = columns
      /\ faults' = faults
  BY DEF Serve
<1>6. phase'[p] = "up"
  BY <1>1, <1>5, ProceedType
<1>7. Reached(p)'
  BY <1>2, <1>4, <1>5, <1>6 DEF Reached
<1>8. faults' \in 0..MaxFaults
  BY <1>1, <1>5 DEF SetupTypeOK
<1> QED
  BY <1>2, <1>4, <1>5, <1>7, <1>8, SetupStepInv

\* Whatever version of the tables it finds, whoever starts beside it and
\* wherever a start breaks off: a process serves only on tables that have
\* every column its statements name.
THEOREM ServesOnWholeTables == SetupSpec => []ServedTables
<1>1. SetupInv /\ [SetupNext]_setupVars => SetupInv'
  <2> SUFFICES ASSUME SetupInv, [SetupNext]_setupVars PROVE SetupInv'
    OBVIOUS
  <2>1. CASE UNCHANGED setupVars
    BY <2>1 DEF SetupInv, SetupTypeOK, Reached, setupVars
  <2>2. CASE SetupNext
    BY <2>2, RunScriptInv, ColumnInv, DownInv, ServeInv DEF SetupNext, StartStep
  <2> QED
    BY <2>1, <2>2
<1>2. SetupInv => ServedTables
  BY DEF SetupInv, Reached, ServedTables
<1> QED
  BY <1>1, <1>2, SetupInvInit, PTL DEF SetupSpec

----------------------------------------------------------------------------
(* The placeholders of a statement                                         *)

\* The quotes inside of literal l of statement s, and of each doubled one
\* the first.
Inner(s, l) == {n \in l[1] + 1 .. l[2] - 1 : s[n] = s[l[1]]}

Doubled(s, l, first) ==
    /\ \A n \in first : n + 1 \in Inner(s, l) /\ n + 1 \notin first
    /\ Inner(s, l) = first \union {n + 1 : n \in first}

Firsts(s, l) == CHOOSE first \in SUBSET Inner(s, l) : Doubled(s, l, first)

\* What a reading says of a statement, as far as the walk needs it.
Reads(s, literals) ==
    /\ \A l \in literals :
          /\ l[1] \in DOMAIN s /\ l[2] \in DOMAIN s
          /\ l[1] < l[2] /\ s[l[1]] \in Quotes /\ s[l[2]] = s[l[1]]
          /\ Firsts(s, l) \subseteq Inner(s, l) /\ Doubled(s, l, Firsts(s, l))
    /\ \A l, m \in literals : l # m => l[2] < m[1] \/ m[2] < l[1]
    /\ \A n \in DOMAIN s : s[n] \in Quotes => \E l \in literals : n \in l[1]..l[2]

Outside(literals, n) == \A l \in literals : n \notin l[1]..l[2]
Right(s, literals, n) == IF s[n] = "?" /\ Outside(literals, n) THEN "%s" ELSE s[n]

\* Has the walk, before it handles place n, the beginning of l behind it and
\* not its end?
Inside(l, n) == l[1] < n /\ n <= l[2]

\* in_string is true exactly inside of the literals of a reading, but for the
\* moment between the two quotes of a doubled one; and what is out is right.
Follows(literals) ==
    /\ \A l \in literals : Inside(l, walked) =>
          /\ walked - 1 \in Firsts(sql, l) => ~in_string
          /\ walked - 1 \notin Firsts(sql, l) => in_string /\ string_char = sql[l[1]]
    /\ (\A l \in literals : ~Inside(l, walked)) => ~in_string
    /\ \A n \in 1 .. walked - 1 : out[n] = Right(sql, literals, n)

WalkTypeOK ==
    /\ sql \in Seq(Characters)
    /\ walked \in 1 .. Len(sql) + 1
    /\ in_string \in BOOLEAN
    /\ out \in Seq(Characters \union {"%s"}) /\ Len(out) = walked - 1

\* The inductive invariant of the walk, for every reading of the statement.
WalkInv == WalkTypeOK /\ \A literals : Reads(sql, literals) => Follows(literals)

\* What SQL takes for a reading is one in the terms of the proof.
LEMMA ReadingReads ==
  ASSUME NEW literals \in Readings
  PROVE  Reads(sql, literals)
<1>1. /\ literals \subseteq {l \in (DOMAIN sql) \X (DOMAIN sql) : IsLiteral(l[1], l[2])}
      /\ IsReading(literals)
  BY DEF Readings
<1>2. ASSUME NEW l \in literals
      PROVE  /\ l[1] \in DOMAIN sql /\ l[2] \in DOMAIN sql
             /\ l[1] < l[2] /\ sql[l[1]] \in Quotes /\ sql[l[2]] = sql[l[1]]
             /\ Firsts(sql, l) \subseteq Inner(sql, l) /\ Doubled(sql, l, Firsts(sql, l))
  <2>1. l[1] \in DOMAIN sql /\ l[2] \in DOMAIN sql /\ IsLiteral(l[1], l[2])
    BY <1>1
  <2>2. l[1] < l[2] /\ sql[l[1]] \in Quotes /\ sql[l[2]] = sql[l[1]]
    BY <2>1 DEF IsLiteral
  <2>3. \E first \in SUBSET Inner(sql, l) : Doubled(sql, l, first)
    BY <2>1 DEF IsLiteral, Inner, Doubled
  <2>4. Firsts(sql, l) \in SUBSET Inner(sql, l) /\ Doubled(sql, l, Firsts(sql, l))
    BY <2>3 DEF Firsts
  <2> QED
    BY <2>1, <2>2, <2>4
<1> QED
  BY <1>1, <1>2 DEF IsReading, Reads

\* Before the walk nothing is inside of anything.
LEMMA WalkInvInit == WalkInit => WalkInv
<1>1. SUFFICES ASSUME sql \in SeqOf(Characters, MaxLength),
                      walked = 1, in_string = FALSE, out = << >>
               PROVE  WalkInv
  BY DEF WalkInit
<1>2. sql \in Seq(Characters)
  <2>1. PICK n \in 0..MaxLength : sql \in [1..n -> Characters]
    BY <1>1 DEF SeqOf
  <2>2. n \in Nat
    BY WalkAssumption
  <2> QED
    BY <2>1, <2>2, SeqDef
<1>3. DOMAIN sql = 1..Len(sql) /\ Len(sql) \in Nat
  BY <1>2
<1>4. WalkTypeOK
  <2>1. out \in Seq(Characters \union {"%s"}) /\ Len(out) = 0
    BY <1>1
  <2>2. walked \in 1 .. Len(sql) + 1 /\ walked - 1 = 0
    BY <1>1, <1>3
  <2> QED
    BY <1>1, <1>2, <2>1, <2>2 DEF WalkTypeOK
<1>5. ASSUME NEW literals, Reads(sql, literals) PROVE Follows(literals)
  <2>1. \A l \in literals : ~Inside(l, walked)
    BY <1>1, <1>3, <1>5 DEF Reads, Inside
  <2>2. 1 .. walked - 1 = {}
    BY <1>1
  <2> QED
    BY <1>1, <2>1, <2>2 DEF Follows
<1> QED
  BY <1>4, <1>5 DEF WalkInv

\* Literals of one reading that have a place in common are the same.
LEMMA OneLiteral ==
  ASSUME NEW s \in Seq(Characters), NEW literals, Reads(s, literals),
         NEW l \in literals, NEW m \in literals, NEW n \in Int,
         l[1] <= n, n <= l[2], m[1] <= n, n <= m[2]
  PROVE  l = m
<1>1. l[1] \in Int /\ l[2] \in Int /\ m[1] \in Int /\ m[2] \in Int
  BY DEF Reads
<1>2. l # m => l[2] < m[1] \/ m[2] < l[1]
  BY DEF Reads
<1> QED
  BY <1>1, <1>2

\* What the walk does at one place, in its four cases.
LEMMA WalkCases ==
  ASSUME WalkTypeOK, "backslash" \notin Characters, WalkNext
  PROVE  /\ walked \in DOMAIN sql /\ sql' = sql /\ walked' = walked + 1
         /\ \/ /\ in_string /\ string_char' = string_char
               /\ in_string' = (sql[walked] # string_char)
               /\ out' = Append(out, sql[walked])
            \/ /\ ~in_string /\ sql[walked] \in Quotes
               /\ in_string' = TRUE /\ string_char' = sql[walked]
               /\ out' = Append(out, sql[walked])
            \/ /\ ~in_string /\ sql[walked] = "?"
               /\ in_string' = in_string /\ string_char' = string_char
               /\ out' = Append(out, "%s")
            \/ /\ ~in_string /\ sql[walked] \notin Quotes /\ sql[walked] # "?"
               /\ in_string' = in_string /\ string_char' = string_char
               /\ out' = Append(out, sql[walked])
<1>1. ~Escaped
  <2>1. \A n \in DOMAIN sql : sql[n] \in Characters
    BY DEF WalkTypeOK
  <2>2. DOMAIN sql = 1..Len(sql) /\ Len(sql) \in Nat
    BY DEF WalkTypeOK
  <2>3. walked > 1 => walked - 1 \in DOMAIN sql
    BY <2>2 DEF WalkTypeOK
  <2> QED
    BY <2>1, <2>3 DEF Escaped
<1> QED
  BY <1>1 DEF WalkNext, InLiteral, Opens, Placeholder, Other, Copy, Advance

\* The ends of a literal are numbers.
LEMMA LiteralEnds ==
  ASSUME WalkTypeOK, NEW literals, Reads(sql, literals), NEW l \in literals
  PROVE  l[1] \in Int /\ l[2] \in Int /\ walked \in Int
<1>1. \A n \in DOMAIN sql : n \in Int
  BY DEF WalkTypeOK
<1>2. l[1] \in DOMAIN sql /\ l[2] \in DOMAIN sql
  BY DEF Reads
<1> QED
  BY <1>1, <1>2 DEF WalkTypeOK

\* Where the walk stands in a reading: at a place of a literal that is no
\* second quote of a doubled one, at such a second quote, at the quote that
\* opens a literal, or outside.
LEMMA WalkPlaces ==
  ASSUME WalkTypeOK, NEW literals, Reads(sql, literals), Follows(literals),
         walked \in DOMAIN sql
  PROVE  \/ \E l \in literals : /\ Inside(l, walked) /\ walked - 1 \notin Firsts(sql, l)
                                /\ in_string /\ string_char = sql[l[1]]
         \/ \E l \in literals : /\ Inside(l, walked) /\ walked - 1 \in Firsts(sql, l)
                                /\ ~in_string
         \/ ~in_string /\ \E l \in literals : l[1] = walked
         \/ ~in_string /\ Outside(literals, walked)
<1>1. CASE \E l \in literals : Inside(l, walked)
  BY <1>1 DEF Follows
<1>2. CASE \A l \in literals : ~Inside(l, walked)
  <2>1. ~in_string
    BY <1>2 DEF Follows
  <2>2. ASSUME NEW l \in literals, l[1] # walked PROVE walked \notin l[1]..l[2]
    <3>1. l[1] \in Int /\ l[2] \in Int /\ walked \in Int
      BY DEF Reads, WalkTypeOK
    <3> QED
      BY <1>2, <2>2, <3>1 DEF Inside
  <2> QED
    BY <2>1, <2>2 DEF Outside
<1> QED
  BY <1>1, <1>2

\* What the next place of the walk has to do with the literal around the
\* current one: it is inside of that literal, or of none.
LEMMA NextInside ==
  ASSUME WalkTypeOK, NEW literals, Reads(sql, literals), NEW l \in literals,
         l[1] <= walked, walked <= l[2], NEW m \in literals
  PROVE  Inside(m, walked + 1) <=> (m = l /\ walked < l[2])
<1>1. /\ l[1] \in Int /\ l[2] \in Int /\ m[1] \in Int /\ m[2] \in Int
      /\ walked \in Int /\ sql \in Seq(Characters)
  BY LiteralEnds DEF WalkTypeOK
<1>2. m[1] <= walked /\ walked <= m[2] => m = l
  BY <1>1, OneLiteral
<1> QED
  BY <1>1, <1>2 DEF Inside

\* Within a literal: its quote closes it for the moment, whether it is the
\* last one or the first of two.
LEMMA FollowsWithin ==
  ASSUME WalkTypeOK, NEW literals, Reads(sql, literals), walked \in DOMAIN sql,
         NEW l \in literals, Inside(l, walked), walked - 1 \notin Firsts(sql, l),
         string_char = sql[l[1]], string_char' = string_char,
         in_string' = (sql[walked] # string_char), sql' = sql, walked' = walked + 1
  PROVE  /\ \A m \in literals : Inside(m, walked') =>
               /\ walked' - 1 \in Firsts(sql', m) => ~in_string'
               /\ walked' - 1 \notin Firsts(sql', m) =>
                      in_string' /\ string_char' = sql'[m[1]]
         /\ (\A m \in literals : ~Inside(m, walked')) => ~in_string'
<1>1. /\ l[1] \in Int /\ l[2] \in Int /\ walked \in Int
      /\ l[1] < walked /\ walked <= l[2] /\ sql[l[2]] = sql[l[1]]
      /\ walked' - 1 = walked
  BY LiteralEnds DEF Reads, Inside
<1>2. \A m \in literals : Inside(m, walked + 1) <=> (m = l /\ walked < l[2])
  BY <1>1, NextInside
<1>3. Firsts(sql, l) \subseteq Inner(sql, l) /\ Doubled(sql, l, Firsts(sql, l))
  BY DEF Reads
<1>4. CASE walked = l[2]
  <2>1. ~in_string'
    BY <1>1, <1>4
  <2>2. \A m \in literals : ~Inside(m, walked')
    BY <1>1, <1>2, <1>4
  <2> QED
    BY <2>1, <2>2
<1>5. CASE walked < l[2]
  <2>1. walked \in Inner(sql, l) <=> sql[walked] = sql[l[1]]
    BY <1>1, <1>5 DEF Inner
  <2>2. walked \in Inner(sql, l) <=> walked \in Firsts(sql, l)
    <3>1. \A n \in Firsts(sql, l) : n \in Int
      BY <1>1, <1>3 DEF Inner
    <3>2. walked \in Inner(sql, l) => walked \in Firsts(sql, l) \/ \E n \in Firsts(sql, l) : walked = n + 1
      BY <1>3 DEF Doubled
    <3>3. \A n \in Firsts(sql, l) : walked = n + 1 => n = walked - 1
      BY <1>1, <3>1
    <3> QED
      BY <1>3, <3>2, <3>3
  <2>3. in_string' <=> walked \notin Firsts(sql, l)
    BY <2>1, <2>2
  <2> QED
    BY <1>1, <1>2, <1>5, <2>3
<1> QED
  BY <1>1, <1>4, <1>5

\* Between the two quotes of a doubled one: the second opens the literal
\* again.
LEMMA FollowsDoubled ==
  ASSUME WalkTypeOK, NEW literals, Reads(sql, literals), walked \in DOMAIN sql,
         NEW l \in literals, Inside(l, walked), walked - 1 \in Firsts(sql, l)
  PROVE  /\ sql[walked] = sql[l[1]] /\ sql[walked] \in Quotes /\ walked < l[2]
         /\ walked \notin Firsts(sql, l)
<1>1. l[1] \in Int /\ l[2] \in Int /\ walked \in Int /\ sql[l[1]] \in Quotes
  BY DEF Reads, WalkTypeOK
<1>2. Doubled(sql, l, Firsts(sql, l))
  BY DEF Reads
<1>3. (walked - 1) + 1 = walked
  BY <1>1
<1>4. walked \in Inner(sql, l) /\ walked \notin Firsts(sql, l)
  BY <1>2, <1>3 DEF Doubled
<1> QED
  BY <1>1, <1>4 DEF Inner

\* A quote opens a literal, or opens it again.
LEMMA FollowsOpened ==
  ASSUME WalkTypeOK, NEW literals, Reads(sql, literals), walked \in DOMAIN sql,
         NEW l \in literals, l[1] <= walked, walked < l[2], walked \notin Firsts(sql, l),
         sql[walked] = sql[l[1]], in_string' = TRUE, string_char' = sql[walked],
         sql' = sql, walked' = walked + 1
  PROVE  /\ \A m \in literals : Inside(m, walked') =>
               /\ walked' - 1 \in Firsts(sql', m) => ~in_string'
               /\ walked' - 1 \notin Firsts(sql', m) =>
                      in_string' /\ string_char' = sql'[m[1]]
         /\ (\A m \in literals : ~Inside(m, walked')) => ~in_string'
<1>1. l[1] \in Int /\ l[2] \in Int /\ walked \in Int /\ walked' - 1 = walked /\ walked <= l[2]
  <2>1. l[1] \in Int /\ l[2] \in Int
    BY LiteralEnds
  <2>2. walked \in Int
    BY DEF WalkTypeOK
  <2> QED
    BY <2>1, <2>2
<1>2. \A m \in literals : Inside(m, walked + 1) <=> (m = l /\ walked < l[2])
  BY <1>1, NextInside
<1> QED
  BY <1>1, <1>2

\* What is out stays, and one character comes to it.
LEMMA OutGrows ==
  ASSUME WalkTypeOK, NEW literals, Follows(literals), NEW c,
         c \in Characters \union {"%s"}, walked \in DOMAIN sql,
         out' = Append(out, c), sql' = sql, walked' = walked + 1,
         c = Right(sql, literals, walked)
  PROVE  \A n \in 1 .. walked' - 1 : out'[n] = Right(sql', literals, n)
<1>1. Len(out) = walked - 1 /\ walked \in Int /\ walked' - 1 = walked
  BY DEF WalkTypeOK
<1>2. ASSUME NEW n \in 1 .. walked PROVE out'[n] = Right(sql, literals, n)
  <2>1. CASE n = walked
    <3>1. out'[Len(out) + 1] = c
      BY AppendProperties DEF WalkTypeOK
    <3>2. Len(out) + 1 = n
      BY <1>1, <2>1
    <3> QED
      BY <2>1, <3>1, <3>2
  <2>2. CASE n # walked
    <3>1. n \in 1 .. Len(out) /\ n \in 1 .. walked - 1
      BY <1>1, <2>2
    <3>2. out'[n] = out[n]
      BY <3>1, AppendProperties DEF WalkTypeOK
    <3> QED
      BY <3>1, <3>2 DEF Follows
  <2> QED
    BY <2>1, <2>2
<1> QED
  BY <1>1, <1>2

\* A character that is no ? comes out as it is.
LEMMA CopyIsRight ==
  ASSUME NEW literals, sql[walked] # "?" \/ ~Outside(literals, walked)
  PROVE  sql[walked] = Right(sql, literals, walked)
  BY DEF Right

\* A step of the walk follows the reading on.
LEMMA FollowsStep ==
  ASSUME WalkTypeOK, "backslash" \notin Characters, WalkNext,
         NEW literals, Reads(sql, literals), Follows(literals)
  PROVE  Follows(literals)'
<1>1. walked \in DOMAIN sql /\ sql' = sql /\ walked' = walked + 1
  BY WalkCases
<1>2. sql[walked] \in Characters
  BY <1>1 DEF WalkTypeOK
<1> DEFINE Aligned ==
             /\ \A m \in literals : Inside(m, walked') =>
                   /\ walked' - 1 \in Firsts(sql', m) => ~in_string'
                   /\ walked' - 1 \notin Firsts(sql', m) =>
                          in_string' /\ string_char' = sql'[m[1]]
             /\ (\A m \in literals : ~Inside(m, walked')) => ~in_string'
           OutRight == \A n \in 1 .. walked' - 1 : out'[n] = Right(sql', literals, n)
<1>3. SUFFICES Aligned /\ OutRight
  BY DEF Follows
<1>4. \A l \in literals : /\ l[1] \in Int /\ l[2] \in Int /\ walked \in Int
                          /\ l[1] < l[2] /\ sql[l[1]] \in Quotes
                          /\ Firsts(sql, l) \subseteq Inner(sql, l)
  BY LiteralEnds DEF Reads
<1>5. ASSUME NEW l \in literals, Inside(l, walked), walked - 1 \notin Firsts(sql, l),
             in_string, string_char = sql[l[1]]
      PROVE  Aligned /\ OutRight
  <2>1. /\ string_char' = string_char /\ in_string' = (sql[walked] # string_char)
        /\ out' = Append(out, sql[walked])
    BY <1>5, WalkCases
  <2>2. Aligned
    BY <1>1, <1>5, <2>1, FollowsWithin
  <2>3. ~Outside(literals, walked)
    BY <1>4, <1>5 DEF Outside, Inside
  <2>4. OutRight
    BY <1>1, <1>2, <2>1, <2>3, CopyIsRight, OutGrows
  <2> QED
    BY <2>2, <2>4
<1>6. ASSUME NEW l \in literals, ~in_string, l[1] <= walked, walked < l[2],
             walked \notin Firsts(sql, l), sql[walked] = sql[l[1]]
      PROVE  Aligned /\ OutRight
  <2>1. sql[walked] \in Quotes
    BY <1>4, <1>6
  <2>2. in_string' = TRUE /\ string_char' = sql[walked] /\ out' = Append(out, sql[walked])
    BY <1>6, <2>1, WalkCases DEF Quotes
  <2>3. Aligned
    BY <1>1, <1>6, <2>2, FollowsOpened
  <2>4. ~Outside(literals, walked)
    BY <1>4, <1>6 DEF Outside
  <2>5. OutRight
    BY <1>1, <1>2, <2>2, <2>4, CopyIsRight, OutGrows
  <2> QED
    BY <2>3, <2>5
<1>7. ASSUME NEW l \in literals, Inside(l, walked), walked - 1 \in Firsts(sql, l), ~in_string
      PROVE  Aligned /\ OutRight
  <2>1. /\ sql[walked] = sql[l[1]] /\ walked < l[2] /\ walked \notin Firsts(sql, l)
        /\ l[1] <= walked
    BY <1>1, <1>4, <1>7, FollowsDoubled DEF Inside
  <2> QED
    BY <1>6, <1>7, <2>1
<1>8. ASSUME NEW l \in literals, ~in_string, l[1] = walked
      PROVE  Aligned /\ OutRight
  <2>1. walked \notin Firsts(sql, l)
    BY <1>4, <1>8 DEF Inner
  <2>2. l[1] <= walked /\ walked < l[2] /\ sql[walked] = sql[l[1]]
    BY <1>4, <1>8
  <2> QED
    BY <1>6, <1>8, <2>1, <2>2
<1>9. ASSUME ~in_string, Outside(literals, walked)
      PROVE  Aligned /\ OutRight
  <2>1. sql[walked] \notin Quotes
    BY <1>1, <1>9 DEF Reads, Outside
  <2>2. ~in_string'
    BY <1>9, <2>1, WalkCases
  <2>3. \A m \in literals : ~Inside(m, walked + 1)
    BY <1>4, <1>9 DEF Inside, Outside
  <2>4. Aligned
    BY <1>1, <2>2, <2>3
  <2>5. OutRight
    <3>1. CASE sql[walked] = "?"
      <4>1. out' = Append(out, "%s")
        BY <1>9, <2>1, <3>1, WalkCases
      <4>2. "%s" = Right(sql, literals, walked)
        BY <1>9, <3>1 DEF Right
      <4> QED
        BY <1>1, <4>1, <4>2, OutGrows
    <3>2. CASE sql[walked] # "?"
      <4>1. out' = Append(out, sql[walked])
        BY <1>9, <2>1, <3>2, WalkCases
      <4> QED
        BY <1>1, <1>2, <3>2, <4>1, CopyIsRight, OutGrows
    <3> QED
      BY <3>1, <3>2
  <2> QED
    BY <2>4, <2>5
<1> QED
  BY <1>1, <1>5, <1>7, <1>8, <1>9, WalkPlaces

\* The types of the walk.
LEMMA WalkTypeStep ==
  ASSUME WalkTypeOK, "backslash" \notin Characters, WalkNext
  PROVE  WalkTypeOK'
<1>1. walked \in DOMAIN sql /\ sql' = sql /\ walked' = walked + 1
  BY WalkCases
<1>2. sql[walked] \in Characters \union {"%s"} /\ "%s" \in Characters \union {"%s"}
  BY <1>1 DEF WalkTypeOK
<1>3. PICK c \in Characters \union {"%s"} : out' = Append(out, c)
  BY <1>2, WalkCases
<1>4. /\ out' \in Seq(Characters \union {"%s"}) /\ Len(out') = Len(out) + 1
  BY <1>3, AppendProperties DEF WalkTypeOK
<1>5. in_string' \in BOOLEAN
  BY WalkCases DEF WalkTypeOK
<1>6. walked' \in 1 .. Len(sql') + 1 /\ Len(out') = walked' - 1
  <2>1. walked \in 1 .. Len(sql) /\ Len(sql) \in Nat /\ Len(out) = walked - 1
    BY <1>1 DEF WalkTypeOK
  <2> QED
    BY <1>1, <1>4, <2>1
<1> QED
  BY <1>1, <1>4, <1>5, <1>6 DEF WalkTypeOK

\* A statement without backslashes, and the mesh has no other, comes out of
\* sqlite_to_pg with every ? outside of its literals replaced and everything
\* else as it was, whatever its length and its quotes.
THEOREM StatementsKeepLiterals ==
  ASSUME "backslash" \notin Characters
  PROVE  WalkSpec => []OnlyPlaceholders
<1>1. WalkInv /\ [WalkNext]_walkVars => WalkInv'
  <2> SUFFICES ASSUME WalkInv, [WalkNext]_walkVars PROVE WalkInv'
    OBVIOUS
  <2>1. CASE UNCHANGED walkVars
    BY <2>1 DEF WalkInv, WalkTypeOK, Follows, walkVars
  <2>2. CASE WalkNext
    <3>1. WalkTypeOK /\ sql' = sql
      BY <2>2, WalkCases DEF WalkInv
    <3>2. WalkTypeOK'
      BY <2>2, <3>1, WalkTypeStep
    <3>3. ASSUME NEW literals, Reads(sql', literals) PROVE Follows(literals)'
      <4>1. Reads(sql, literals) /\ Follows(literals)
        BY <3>1, <3>3 DEF WalkInv
      <4> QED
        BY <2>2, <3>1, <4>1, FollowsStep
    <3> QED
      BY <3>2, <3>3 DEF WalkInv
  <2> QED
    BY <2>1, <2>2
<1>2. WalkInv => OnlyPlaceholders
  <2> SUFFICES ASSUME WalkInv, walked > Len(sql), NEW literals \in Readings
               PROVE  out = [n \in DOMAIN sql |->
                               IF sql[n] = "?" /\ (\A l \in literals : n \notin l[1]..l[2])
                               THEN "%s" ELSE sql[n]]
    BY DEF OnlyPlaceholders
  <2>1. Follows(literals)
    BY ReadingReads DEF WalkInv
  <2>2. /\ Len(sql) \in Nat /\ DOMAIN sql = 1 .. Len(sql) /\ walked - 1 = Len(sql)
        /\ out \in [1 .. Len(sql) -> Characters \union {"%s"}]
    <3>1. /\ sql \in Seq(Characters) /\ walked \in 1 .. Len(sql) + 1
          /\ out \in Seq(Characters \union {"%s"}) /\ Len(out) = walked - 1
      BY DEF WalkInv, WalkTypeOK
    <3>2. Len(sql) \in Nat /\ DOMAIN sql = 1 .. Len(sql) /\ walked - 1 = Len(sql)
      BY <3>1
    <3>3. out \in [1 .. Len(out) -> Characters \union {"%s"}]
      BY <3>1, LenProperties
    <3> QED
      BY <3>1, <3>2, <3>3
  <2>3. \A n \in DOMAIN sql : out[n] = Right(sql, literals, n)
    BY <2>1, <2>2 DEF Follows
  <2> QED
    BY <2>2, <2>3 DEF Right, Outside
<1> QED
  BY <1>1, <1>2, WalkInvInit, PTL DEF WalkSpec

----------------------------------------------------------------------------
(* The migration                                                           *)

Table == MeshTables[at]
Busy == {"upsert", "commit"}

\* A row of PostgreSQL that is ahead of the file, or of what was just read of
\* it, was written there by the mesh; and the file is not behind what was read.
VersionsInv ==
    /\ \A t \in Tables, i \in Ids : target[t][i] > source[t][i] => <<t, i>> \in own
    /\ stage \in Busy => \A i \in Ids :
          rows[i] # 0 /\ target[Table][i] > rows[i] => <<Table, i>> \in own
    /\ stage \in Busy => \A i \in Ids : rows[i] <= source[Table][i]

\* In a quiet run the tables before the present one are copied.
CopiedInv ==
    /\ stage \in Busy /\ quiet => rows = source[Table]
    /\ stage \in Busy \union {"copy", "finished"} /\ quiet =>
          \A n \in 1..4, i \in Ids :
              n < at /\ source[MeshTables[n]][i] # 0
                  => target[MeshTables[n]][i] = source[MeshTables[n]][i]

PlaceInv ==
    /\ stage = "clear" => clear
    /\ stage = "finished" => at > 4
    /\ stage \in Busy => at <= 4

MigrationInv == MigrationTypeOK /\ VersionsInv /\ CopiedInv /\ PlaceInv

----------------------------------------------------------------------------
(* The tables                                                              *)

LEMMA TablesAre ==
    /\ Len(MeshTables) = 4 /\ \A n \in 1..4 : MeshTables[n] \in Tables
    /\ \A t \in Tables : \E n \in 1..4 : MeshTables[n] = t
    /\ \A t \in Tables : t \in {"agents", "tasks", "activity", "escrow_holds"}
BY DEF MeshTables, Tables

LEMMA NoRowsType == NoRows \in [Ids -> 0..MaxVersion]
BY MigrationAssumption DEF NoRows

\* The place of the present table is one of the four while it is copied.
LEMMA TableIs ==
    ASSUME MigrationTypeOK, PlaceInv, stage \in Busy
    PROVE  Table \in Tables
BY TablesAre DEF MigrationTypeOK, PlaceInv, Table

----------------------------------------------------------------------------
(* Initial states                                                          *)

LEMMA InitInv == MigrationInit => MigrationInv
<1> SUFFICES ASSUME MigrationInit PROVE MigrationInv
  OBVIOUS
<1>1. MigrationTypeOK
  <2>1. source \in [Tables -> [Ids -> 0..MaxVersion]] /\ target \in [Tables -> [Ids -> 0..MaxVersion]]
    BY MigrationAssumption DEF MigrationInit
  <2>2. rows \in [Ids -> 0..MaxVersion] /\ deleted = {} /\ stage = "idle"
    BY NoRowsType DEF MigrationInit
  <2>3. at \in 1..Len(MeshTables) + 1
    BY TablesAre DEF MigrationInit
  <2>4. writes \in 0..MaxWrites /\ failures \in 0..MaxFailures
    BY MigrationAssumption DEF MigrationInit
  <2>5. /\ clear \in BOOLEAN /\ quiet \in BOOLEAN
        /\ store \in {"sqlite", "postgresql"} /\ own \subseteq Tables \X Ids
    BY DEF MigrationInit
  <2> QED
    BY <2>1, <2>2, <2>3, <2>4, <2>5 DEF MigrationTypeOK
<1>2. VersionsInv
  BY DEF MigrationInit, VersionsInv, Busy
<1> QED
  BY <1>1, <1>2 DEF MigrationInit, MigrationInv, CopiedInv, PlaceInv, Busy

----------------------------------------------------------------------------
(* Steps                                                                   *)

LEMMA WriteInv ==
    ASSUME MigrationInv, NEW t \in Tables, NEW i \in Ids, Write(t, i)
    PROVE  MigrationInv'
<1> USE TablesAre DEF MigrationInv
<1>1. MigrationTypeOK'
  <2>1. [source[t] EXCEPT ![i] = @ + 1] \in [Ids -> 0..MaxVersion]
    BY MigrationAssumption DEF MigrationTypeOK, Write
  <2>2. source' = [source EXCEPT ![t] = [source[t] EXCEPT ![i] = @ + 1]]
    BY DEF Write
  <2>3. source' \in [Tables -> [Ids -> 0..MaxVersion]]
    BY <2>1, <2>2 DEF MigrationTypeOK
  <2>4. writes' \in 0..MaxWrites /\ quiet' = FALSE
        /\ UNCHANGED <<target, stage, clear, at, rows, deleted, store, own, failures>>
    BY MigrationAssumption DEF MigrationTypeOK, Write, Wrote
  <2> QED
    BY <2>3, <2>4 DEF MigrationTypeOK
<1>2. PlaceInv'
  BY DEF MigrationTypeOK, PlaceInv, Busy, Write
<1>3. VersionsInv'
  BY TableIs DEF MigrationTypeOK, PlaceInv, VersionsInv, Busy, Table, Write
<1>4. CopiedInv'
  BY DEF CopiedInv, Write, Wrote
<1> QED
  BY <1>1, <1>2, <1>3, <1>4

LEMMA MoveInv ==
    ASSUME MigrationInv, NEW s \in {"sqlite", "postgresql"}, Move(s)
    PROVE  MigrationInv'
BY DEF MigrationInv, MigrationTypeOK, PlaceInv, VersionsInv, CopiedInv, Busy, Table, Move

LEMMA WriteThereInv ==
    ASSUME MigrationInv, NEW t \in Tables, NEW i \in Ids, WriteThere(t, i)
    PROVE  MigrationInv'
<1> USE TablesAre DEF MigrationInv
<1>1. /\ target' = [target EXCEPT ![t] = [target[t] EXCEPT ![i] = @ + 1]]
      /\ own' = own \union {<<t, i>>} /\ quiet' = FALSE /\ writes' \in 0..MaxWrites
      /\ UNCHANGED <<source, stage, clear, at, rows, deleted, store, failures>>
  BY MigrationAssumption DEF MigrationTypeOK, WriteThere, Wrote
<1>2. MigrationTypeOK'
  <2>1. [target[t] EXCEPT ![i] = @ + 1] \in [Ids -> 0..MaxVersion]
    BY MigrationAssumption DEF MigrationTypeOK, WriteThere
  <2>2. target' \in [Tables -> [Ids -> 0..MaxVersion]]
    BY <1>1, <2>1 DEF MigrationTypeOK
  <2>3. own' \subseteq Tables \X Ids
    BY <1>1 DEF MigrationTypeOK
  <2> QED
    BY <1>1, <2>2, <2>3 DEF MigrationTypeOK
<1>3. PlaceInv'
  BY <1>1 DEF PlaceInv, Busy
<1>4. VersionsInv'
  <2>1. ASSUME NEW u \in Tables, NEW j \in Ids, <<u, j>> \notin own'
        PROVE  target'[u][j] = target[u][j] /\ <<u, j>> \notin own
    BY <1>1, <2>1 DEF MigrationTypeOK
  <2>2. stage \in Busy => Table \in Tables /\ Table' = Table
    BY <1>1, TableIs DEF Table
  <2> QED
    BY <1>1, <2>1, <2>2 DEF VersionsInv, Busy
<1>5. CopiedInv'
  BY <1>1 DEF CopiedInv
<1> QED
  BY <1>2, <1>3, <1>4, <1>5

LEMMA BeginInv ==
    ASSUME MigrationInv, NEW c \in BOOLEAN, Begin(c)
    PROVE  MigrationInv'
<1> USE TablesAre DEF MigrationInv
<1>1. MigrationTypeOK'
  <2>1. stage' \in {"clear", "copy"} /\ at' = 1 /\ deleted = {}
    BY DEF MigrationTypeOK, Begin, Goto
  <2> QED
    BY <2>1 DEF MigrationTypeOK, Begin
<1>2. PlaceInv'
  BY DEF MigrationTypeOK, PlaceInv, Busy, Begin, Goto
<1>3. VersionsInv'
  BY TableIs DEF MigrationTypeOK, PlaceInv, VersionsInv, Busy, Table, Begin, Goto
<1>4. CopiedInv'
  <2>1. at' = 1 /\ stage' \in {"clear", "copy"}
    BY DEF Begin, Goto
  <2> QED
    BY <2>1 DEF CopiedInv, Busy
<1> QED
  BY <1>1, <1>2, <1>3, <1>4

LEMMA DeleteInv ==
    ASSUME MigrationInv, Delete
    PROVE  MigrationInv'
<1> USE TablesAre DEF MigrationInv
<1>1. MigrationTypeOK'
  BY NoRowsType, TableIs, MigrationAssumption DEF MigrationTypeOK, PlaceInv, Busy, Delete, world
<1>2. PlaceInv'
  BY DEF MigrationTypeOK, PlaceInv, Busy, Delete, world
<1>3. VersionsInv'
  BY TableIs DEF MigrationTypeOK, PlaceInv, VersionsInv, Busy, Table, Delete, world
<1>4. CopiedInv'
  BY TableIs DEF MigrationTypeOK, PlaceInv, CopiedInv, Busy, Table, Delete, world
<1> QED
  BY <1>1, <1>2, <1>3, <1>4

LEMMA CommitDeleteInv ==
    ASSUME MigrationInv, CommitDelete
    PROVE  MigrationInv'
<1> USE TablesAre DEF MigrationInv
<1>1. MigrationTypeOK'
  BY NoRowsType, TableIs, MigrationAssumption DEF MigrationTypeOK, PlaceInv, Busy, CommitDelete, Goto, world
<1>2. PlaceInv'
  BY DEF MigrationTypeOK, PlaceInv, Busy, CommitDelete, Goto, world
<1>3. VersionsInv'
  <2>1. ASSUME NEW t \in Tables, NEW i \in Ids
        PROVE  target'[t][i] <= target[t][i] /\ target'[t][i] \in Int /\ target[t][i] \in Int
    BY <2>1 DEF MigrationTypeOK, CommitDelete, NoRows
  <2>2. source' = source /\ stage' = "copy"
    BY DEF CommitDelete, Goto, world
  <2>3. ASSUME NEW t \in Tables, NEW i \in Ids, target'[t][i] > source'[t][i]
        PROVE  <<t, i>> \in own'
    BY <2>1, <2>2, <2>3 DEF MigrationTypeOK, VersionsInv, CommitDelete, world
  <2> QED
    BY <2>2, <2>3 DEF VersionsInv, Busy
<1>4. CopiedInv'
  BY TableIs DEF MigrationTypeOK, PlaceInv, CopiedInv, Busy, Table, CommitDelete, Goto, world
<1> QED
  BY <1>1, <1>2, <1>3, <1>4

LEMMA SelectInv ==
    ASSUME MigrationInv, Select
    PROVE  MigrationInv'
<1> USE TablesAre DEF MigrationInv
<1>1. MigrationTypeOK'
  BY NoRowsType, TableIs, MigrationAssumption DEF MigrationTypeOK, PlaceInv, Busy, Select, world
<1>2. PlaceInv'
  BY DEF MigrationTypeOK, PlaceInv, Busy, Select, world
<1>3. VersionsInv'
  BY TableIs DEF MigrationTypeOK, PlaceInv, VersionsInv, Busy, Table, Select, world
<1>4. CopiedInv'
  <2>1. /\ rows' = source[Table] /\ UNCHANGED <<source, target, quiet>> /\ stage = "copy"
        /\ \/ rows' = NoRows /\ at' = at + 1 /\ stage' = "copy"
           \/ at' = at /\ stage' = "upsert"
    BY DEF Select, Table, world
  <2>2. ASSUME quiet, NEW n \in 1..4, NEW i \in Ids, n < at', source[MeshTables[n]][i] # 0
        PROVE  target[MeshTables[n]][i] = source[MeshTables[n]][i]
    <3>1. CASE n < at
      BY <2>1, <2>2, <3>1 DEF CopiedInv
    <3>2. CASE n = at /\ rows' = NoRows
      BY <2>1, <2>2, <3>2 DEF NoRows, Table
    <3> QED
      BY <2>1, <2>2, <3>1, <3>2 DEF MigrationTypeOK
  <2>3. stage' \in Busy => rows' = source'[Table']
    BY <2>1 DEF Busy, Table
  <2> QED
    BY <2>1, <2>2, <2>3 DEF CopiedInv, Table
<1> QED
  BY <1>1, <1>2, <1>3, <1>4

LEMMA ExecutemanyInv ==
    ASSUME MigrationInv, Executemany
    PROVE  MigrationInv'
<1> USE TablesAre DEF MigrationInv
<1>1. MigrationTypeOK'
  BY NoRowsType, TableIs, MigrationAssumption DEF MigrationTypeOK, PlaceInv, Busy, Executemany, world
<1>2. PlaceInv'
  BY DEF MigrationTypeOK, PlaceInv, Busy, Executemany, world
<1>3. VersionsInv'
  BY TableIs DEF MigrationTypeOK, PlaceInv, VersionsInv, Busy, Table, Executemany, world
<1>4. CopiedInv'
  BY TableIs DEF MigrationTypeOK, PlaceInv, CopiedInv, Busy, Table, Executemany, world
<1> QED
  BY <1>1, <1>2, <1>3, <1>4

LEMMA StopInv ==
    ASSUME MigrationInv, NoSuchMethod \/ Interrupted
    PROVE  MigrationInv'
<1> USE TablesAre DEF MigrationInv
<1>1. MigrationTypeOK'
  BY NoRowsType, TableIs, MigrationAssumption DEF MigrationTypeOK, PlaceInv, Busy, NoSuchMethod, Interrupted, Stop, world
<1>2. PlaceInv'
  BY DEF MigrationTypeOK, PlaceInv, Busy, NoSuchMethod, Interrupted, Stop, world
<1>3. VersionsInv'
  BY TableIs DEF MigrationTypeOK, PlaceInv, VersionsInv, Busy, Table, NoSuchMethod, Interrupted, Stop, world
<1>4. CopiedInv'
  BY TableIs DEF MigrationTypeOK, PlaceInv, CopiedInv, Busy, Table, NoSuchMethod, Interrupted, Stop, world
<1> QED
  BY <1>1, <1>2, <1>3, <1>4

LEMMA CommitTableInv ==
    ASSUME MigrationInv, CommitTable
    PROVE  MigrationInv'
<1> USE TablesAre DEF MigrationInv
<1>1. MigrationTypeOK'
  BY NoRowsType, TableIs, MigrationAssumption DEF MigrationTypeOK, PlaceInv, Busy, CommitTable, Upserted, world
<1>2. PlaceInv'
  BY DEF MigrationTypeOK, PlaceInv, Busy, CommitTable, Upserted, world
<1>3. VersionsInv'
  BY TableIs DEF MigrationTypeOK, PlaceInv, VersionsInv, Busy, Table, CommitTable, Upserted, world
<1>4. CopiedInv'
  BY TableIs DEF MigrationTypeOK, PlaceInv, CopiedInv, Busy, Table, CommitTable, Upserted, world
<1> QED
  BY <1>1, <1>2, <1>3, <1>4

LEMMA FinishInv ==
    ASSUME MigrationInv, Finish
    PROVE  MigrationInv'
<1> USE TablesAre DEF MigrationInv
<1>1. MigrationTypeOK'
  BY NoRowsType, TableIs, MigrationAssumption DEF MigrationTypeOK, PlaceInv, Busy, Finish, world
<1>2. PlaceInv'
  BY DEF MigrationTypeOK, PlaceInv, Busy, Finish, world
<1>3. VersionsInv'
  BY TableIs DEF MigrationTypeOK, PlaceInv, VersionsInv, Busy, Table, Finish, world
<1>4. CopiedInv'
  BY TableIs DEF MigrationTypeOK, PlaceInv, CopiedInv, Busy, Table, Finish, world
<1> QED
  BY <1>1, <1>2, <1>3, <1>4

LEMMA StutterInv == MigrationInv /\ UNCHANGED migrationVars => MigrationInv'
BY DEF MigrationInv, MigrationTypeOK, PlaceInv, VersionsInv, CopiedInv, Busy, Table, migrationVars

LEMMA NextInv == MigrationInv /\ [MigrationNext]_migrationVars => MigrationInv'
BY WriteInv, MoveInv, WriteThereInv, BeginInv, DeleteInv, CommitDeleteInv, SelectInv, ExecutemanyInv, StopInv,
   CommitTableInv, FinishInv, StutterInv DEF MigrationNext, MigrationWork

----------------------------------------------------------------------------
(* Theorems                                                                *)

THEOREM MigrationInvariant == MigrationSpec => []MigrationInv
BY InitInv, NextInv, PTL DEF MigrationSpec

\* Every variable of the script and of the two databases has its type, and a
\* DELETE pends only while the target is cleared.
THEOREM MigrationTypeCorrect == MigrationSpec => []MigrationTypeOK
<1>1. MigrationInv => MigrationTypeOK
  BY DEF MigrationInv
<1> QED
  BY <1>1, MigrationInvariant, PTL

\* A run of the script that comes to its end has copied what the file holds,
\* whatever was interrupted before.
THEOREM FinishedStaysCopy == MigrationSpec => []FinishedIsCopy
<1>1. MigrationInv => FinishedIsCopy
  <2> SUFFICES ASSUME MigrationInv, stage = "finished", quiet, NEW t \in Tables, NEW i \in Ids,
                      source[t][i] # 0
               PROVE  target[t][i] = source[t][i]
    BY DEF FinishedIsCopy
  <2>1. PICK n \in 1..4 : MeshTables[n] = t
    BY TablesAre
  <2>2. n < at
    BY DEF MigrationInv, MigrationTypeOK, PlaceInv
  <2> QED
    BY <2>1, <2>2 DEF MigrationInv, CopiedInv
<1> QED
  BY <1>1, MigrationInvariant, PTL

\* The upserts of the script take no row away, and none back to what it was
\* but those the mesh wrote in PostgreSQL itself.
THEOREM NeverTakesBack == MigrationSpec => NeverOlder
<1> DEFINE Kind(t, i) ==
        target'[t][i] < target[t][i] /\ ~clear => <<t, i>> \in own /\ target'[t][i] # 0
<1>1. ASSUME MigrationInv, [MigrationNext]_migrationVars, NEW t \in Tables, NEW i \in Ids,
             target'[t][i] < target[t][i], ~clear
      PROVE  <<t, i>> \in own /\ target'[t][i] # 0
  <2>1. target' # target
    BY <1>1 DEF MigrationInv, MigrationTypeOK
  <2>2. CommitDelete \/ CommitTable \/ \E u \in Tables, j \in Ids : WriteThere(u, j)
    BY <1>1, <2>1 DEF MigrationNext, MigrationWork, Delete, Select, Executemany, NoSuchMethod, Finish,
       Interrupted, Stop, Begin, Move, Write, migrationVars
  <2>3. CASE CommitDelete
    BY <1>1, <2>3 DEF MigrationInv, PlaceInv, CommitDelete
  <2>4. CASE CommitTable
    <3>1. target'[t][i] \in {target[t][i], Upserted(target[t][i], rows[i])}
          /\ (target'[t][i] # target[t][i] => t = Table)
      BY <2>4, TablesAre DEF MigrationInv, MigrationTypeOK, CommitTable, Table
    <3>2. t = Table /\ rows[i] # 0 /\ target'[t][i] = rows[i]
      BY <1>1, <3>1 DEF MigrationInv, MigrationTypeOK, Upserted
    <3>3. stage \in Busy /\ target[Table][i] > rows[i]
      BY <1>1, <2>4, <3>2 DEF CommitTable, Busy
    <3>4. <<Table, i>> \in own
      BY <1>1, <3>2, <3>3 DEF MigrationInv, VersionsInv
    <3> QED
      BY <3>2, <3>4, <1>1 DEF MigrationInv, MigrationTypeOK
  <2>5. CASE \E u \in Tables, j \in Ids : WriteThere(u, j)
    BY <1>1, <2>5 DEF MigrationInv, MigrationTypeOK, WriteThere
  <2> QED
    BY <2>2, <2>3, <2>4, <2>5
<1>2. MigrationInv /\ [MigrationNext]_migrationVars
         => [\A t \in Tables, i \in Ids : Kind(t, i)]_migrationVars
  BY <1>1
<1> QED
  BY <1>2, MigrationInvariant, PTL DEF MigrationSpec, NeverOlder
=============================================================================
