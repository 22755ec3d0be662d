----------------------------- MODULE ChaseTerms -----------------------------
(***************************************************************************)
(* The terms of the chase (chasemgmt.cpp).  A term is a number: a constant *)
(* is small, a chase term packs the rule, the existential variable and a   *)
(* counter.  For each pair of rule and variable, a function symbol, the    *)
(* manager keeps the rows of arguments that have been given a term; the    *)
(* summarising chases give all rows of a symbol the same term.             *)
(***************************************************************************)
EXTENDS Integers, Sequences, SequencesExt

CONSTANTS
  CounterWidth,       \* terms of a function symbol: 2^32 in the code
  VarWidth            \* variables of a rule: 2^8 in the code

ASSUME WidthAssumption ==
  /\ VarWidth \in Nat /\ VarWidth > 3
  /\ CounterWidth \in Nat /\ CounterWidth >= VarWidth

Symbol(rule, var) == rule * VarWidth + var
RuleOf(f) == f \div VarWidth
VarOf(f) == f % VarWidth

TermOf(f, counter) == f * CounterWidth + counter
SymbolOf(t) == t \div CounterWidth
Counter(t) == t % CounterWidth

\* v & RULEVARMASK
IsFunction(t) == t >= CounterWidth

Functions(row) == { v \in ToSet(row) : IsFunction(v) }

-----------------------------------------------------------------------------
(* rows: of each function symbol, the sequence of its rows of arguments    *)

TermFor(rows, sum, f, row) ==
  TermOf(f, IF sum THEN 0 ELSE (CHOOSE i \in DOMAIN rows[f] : rows[f][i] = row) - 1)

\* The terms given out.
Terms(rows, sum) ==
  UNION { { TermFor(rows, sum, f, row) : row \in ToSet(rows[f]) } : f \in DOMAIN rows }

\* The row that term t stands for.
Arguments(rows, t) == rows[SymbolOf(t)][Counter(t) + 1]

\* (mutant) in a summarising chase the dependencies of the first row only.
NestedFirst(rows, sum, t) == Functions(Arguments(rows, t))

\* The function terms directly inside t: its arguments, or in a summarising chase
\* those of all terms with its symbol.
Nested(rows, sum, t) ==
  IF sum THEN UNION { Functions(rows[SymbolOf(t)][i]) : i \in DOMAIN rows[SymbolOf(t)] }
         ELSE Functions(Arguments(rows, t))

\* (mutant) only the direct arguments are looked at.
CheckDirect(rows, sum, f, t) == \E u \in Nested(rows, sum, t) : SymbolOf(u) = f

\* Is f the symbol of a term inside t?  The worklist drops what it has just looked
\* at, and goes on while something is left.
CheckRecursive(rows, sum, f, t) ==
  LET Search[toCheck \in SUBSET Terms(rows, sum)] ==
        /\ toCheck # {}
        /\ \/ \E u \in toCheck : SymbolOf(u) = f
           \/ Search[(UNION { Nested(rows, sum, u) : u \in toCheck }) \ toCheck]
  IN Search[Nested(rows, sum, t)]

\* checkRecursive(rv): does a term contain its own symbol?
IsRecursive(rows, sum, t) == IsFunction(t) /\ CheckRecursive(rows, sum, SymbolOf(t), t)

\* Giving row a term with symbol f closes a cycle.
ClosesCycle(rows, sum, f, row) ==
  \E a \in Functions(row) : SymbolOf(a) = f \/ CheckRecursive(rows, sum, f, a)

\* addRow throws when the counter of a function symbol is used up; in a summarising
\* chase it stays at zero.
Room(rows, sum) == sum \/ \A f \in DOMAIN rows : Len(rows[f]) < CounterWidth

\* existingRow, addRow
Intern(rows, f, row) ==
  IF Contains(rows[f], row) THEN rows ELSE [rows EXCEPT ![f] = Append(@, row)]

\* getNewOrExistingIDs for a column of rows: s carries the rows, whether a cyclic
\* term was met in a rule that is checked, and the terms given out.
NewOrExistingIDs(s, sum, checked, f, column) ==
  FoldLeft(LAMBDA a, row :
             LET rows == Intern(a.rows, f, row)
             IN [rows |-> rows,
                 cyclic |-> a.cyclic \/ (checked /\ ClosesCycle(a.rows, sum, f, row)),
                 ids |-> Append(a.ids, TermFor(rows, sum, f, row))],
           [s EXCEPT !.ids = << >>], column)

=============================================================================
