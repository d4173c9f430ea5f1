---------------------------- MODULE Placeholders ----------------------------
(***************************************************************************)
(* The last pass of sqlite_to_pg: _replace_placeholders walks over a       *)
(* statement and turns every ? outside of literals into the placeholder    *)
(* of PostgreSQL.  Of the characters only those count that it tells apart. *)
(***************************************************************************)
EXTENDS SequencesExt

CONSTANTS
    Characters,     \* subset of {"?", "'", "''", "backslash", "x"}; "''" is the double quote
    MaxLength       \* bound on the statement

ASSUME WalkAssumption == MaxLength \in Nat

Quotes == {"'", "''"}

VARIABLES
    sql, walked,    \* the statement and the place the walk has come to
    in_string,      \* inside a literal?
    string_char,    \* the quote that opened it
    out

walkVars == <<sql, walked, in_string, string_char, out>>

WalkInit ==
    /\ sql \in SeqOf(Characters, MaxLength)
    /\ walked = 1 /\ in_string = FALSE /\ string_char = "" /\ out = << >>

Escaped == walked > 1 /\ sql[walked - 1] = "backslash"

Copy == out' = Append(out, sql[walked])
Advance == walked' = walked + 1 /\ UNCHANGED sql

\* Variant: either quote ends a literal.
InLiteralAnyQuote ==
    /\ walked \in DOMAIN sql /\ in_string
    /\ Copy /\ Advance
    /\ in_string' = ~(sql[walked] \in Quotes /\ ~Escaped)
    /\ UNCHANGED string_char

InLiteral ==
    /\ walked \in DOMAIN sql /\ in_string
    /\ Copy /\ Advance
    /\ in_string' = ~(sql[walked] = string_char /\ ~Escaped)
    /\ UNCHANGED string_char

Opens ==
    /\ walked \in DOMAIN sql /\ ~in_string /\ sql[walked] \in Quotes
    /\ Copy /\ Advance
    /\ in_string' = TRUE /\ string_char' = sql[walked]

Placeholder ==
    /\ walked \in DOMAIN sql /\ ~in_string /\ sql[walked] = "?"
    /\ out' = Append(out, "%s") /\ Advance
    /\ UNCHANGED <<in_string, string_char>>

Other ==
    /\ walked \in DOMAIN sql /\ ~in_string /\ sql[walked] \notin Quotes \union {"?"}
    /\ Copy /\ Advance
    /\ UNCHANGED <<in_string, string_char>>

WalkNext == InLiteral \/ Opens \/ Placeholder \/ Other

WalkSpec == WalkInit /\ [][WalkNext]_walkVars

----------------------------------------------------------------------------
(* What SQL takes for a literal                                            *)

\* From a to b: a quote, then others or the quote twice, then the quote.
IsLiteral(a, b) ==
    LET q == sql[a]
        within == {n \in a + 1 .. b - 1 : sql[n] = q}
    IN  /\ a < b /\ q \in Quotes /\ sql[b] = q
        /\ \E first \in SUBSET within :
              /\ \A n \in first : n + 1 \in within \ first
              /\ within = first \union {n + 1 : n \in first}

\* Literals that do not meet and leave no quote outside.
IsReading(literals) ==
    /\ \A l, m \in literals :
          l # m => l[2] < m[1] \/ m[2] < l[1]
    /\ \A l, m \in literals : l[2] + 1 = m[1] => sql[l[2]] # sql[m[1]]
    /\ \A n \in DOMAIN sql :
          sql[n] \in Quotes => \E l \in literals : n \in l[1]..l[2]

Readings ==
    LET places == DOMAIN sql
    IN  {literals \in SUBSET {l \in places \X places : IsLiteral(l[1], l[2])} : IsReading(literals)}

----------------------------------------------------------------------------
(* Properties                                                              *)

\* A statement that SQL can read comes out with every ? outside of its
\* literals replaced, so that the parameters meet their placeholders, and
\* everything else as it was.
OnlyPlaceholders ==
    walked > Len(sql) =>
        \A literals \in Readings :
            out = [n \in DOMAIN sql |->
                     IF sql[n] = "?" /\ (\A l \in literals : n \notin l[1]..l[2])
                     THEN "%s" ELSE sql[n]]
=============================================================================
