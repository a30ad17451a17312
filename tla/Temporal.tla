------------------------------ MODULE Temporal ------------------------------
(***************************************************************************)
(* civic_temporal: a time phrase becomes a time scope.                     *)
(*                                                                         *)
(* A phrase stands for what the regular expressions of the normalizer find *)
(* in its text: an ISO date, a Hebrew month with its year, the number of a *)
(* Knesset, "last year", "last term", a year.  A date is the number        *)
(* yyyymmdd; a bound of a scope is the day it falls on.                    *)
(***************************************************************************)
EXTENDS Integers, Sequences

CONSTANT None      \* Python's None: no value, no bound, no phrase

Date(y, m, d) == 10000 * y + 100 * m + d

\* KNESSET_TERMS: the first and the last day; the current term has no last.
KnessetTerms == <<
  <<19490214, 19510820>>, <<19510820, 19550815>>, <<19550815, 19591204>>,
  <<19591204, 19610904>>, <<19610904, 19651122>>, <<19651122, 19691117>>,
  <<19691117, 19740121>>, <<19740121, 19770613>>, <<19770613, 19810720>>,
  <<19810720, 19840813>>, <<19840813, 19881121>>, <<19881121, 19920713>>,
  <<19920713, 19960617>>, <<19960617, 19990607>>, <<19990607, 20030217>>,
  <<20030217, 20060417>>, <<20060417, 20090224>>, <<20090224, 20130205>>,
  <<20130205, 20150331>>, <<20150331, 20190430>>, <<20190430, 20191003>>,
  <<20191003, 20200316>>, <<20200316, 20201222>>, <<20201222, 20221115>>,
  <<20221115, None>> >>

Scope(start, end, granularity) ==
  [start |-> start, end |-> end, granularity |-> granularity]

Unknown == Scope(None, None, "unknown")

YearBounds(y) == Scope(Date(y, 1, 1), Date(y, 12, 31), "year")

LastDay(y, m) ==
  CASE m \in {4, 6, 9, 11} -> 30
    [] m = 2 -> IF y % 4 = 0 /\ (y % 100 # 0 \/ y % 400 = 0) THEN 29 ELSE 28
    [] OTHER -> 31

MonthBounds(y, m) == Scope(Date(y, m, 1), Date(y, m, LastDay(y, m)), "month")

TermScope(n) == Scope(KnessetTerms[n][1], KnessetTerms[n][2], "term")

\* The first term of the table that the day falls in; on the day one term
\* ends and the next begins that is the ending one.
TermOn(today) ==
  LET holds(n) == /\ KnessetTerms[n][1] <= today
                  /\ KnessetTerms[n][2] = None \/ today <= KnessetTerms[n][2]
      terms == {n \in DOMAIN KnessetTerms : holds(n)}
  IN IF terms = {} THEN None
     ELSE CHOOSE n \in terms : \A k \in terms : n <= k

\* A phrase in which nothing is found.
NoCue == [iso |-> None, month |-> None, term |-> None,
          lastYear |-> FALSE, lastTerm |-> FALSE, year |-> None]

\* The order of the tests is the code's: a number that is no Knesset, and a
\* last term before the first, go on to the tests below.
NormalizeTimeScope(p, today) ==
  IF p = None THEN Unknown
  ELSE IF p.iso # None THEN Scope(p.iso, p.iso, "day")
  ELSE IF p.month # None THEN MonthBounds(p.month[1], p.month[2])
  ELSE IF p.term # None /\ p.term \in DOMAIN KnessetTerms
       THEN TermScope(p.term)
  ELSE IF p.lastYear THEN YearBounds(today \div 10000 - 1)
  ELSE IF p.lastTerm /\ TermOn(today) # None /\ TermOn(today) # 1
       THEN TermScope(TermOn(today) - 1)
  ELSE IF p.year # None THEN YearBounds(p.year)
  ELSE Unknown

Granularities == {"day", "month", "year", "term", "unknown"}
=============================================================================
