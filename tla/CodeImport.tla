----------------------------- MODULE CodeImport -----------------------------
(***************************************************************************)
(* The CSV import of purchase codes, beside the manual issue of one        *)
(* (apps/license-server/src/purchase-code).  Neither opens a transaction:  *)
(* each database call is a step.  The table's hash of the upper-case code  *)
(* is unique over all products.  An admin whose import broke off uploads   *)
(* the file again, or another one.                                         *)
(***************************************************************************)
EXTENDS Naturals, Sequences, FiniteSets

CONSTANTS
    Names,      \* codes, upper-cased
    Files       \* CSV files: sequences of rows

\* The product an import is for, and another.
Products == {"this", "other"}

\* A row: its code, unless that is empty or fails validation, and whether
\* maxActivations is a number.
Row == [code : Names \cup {"bad"}, number : BOOLEAN]

ASSUME ImportAssumption == Files \subseteq Seq(Row)

VARIABLES
    listed,     \* the product each code is in the table for, or "none"
    imp,        \* the import
    iss         \* the manual issue

importVars == <<listed, imp, iss>>

\* An import: the file, ?commit, the next row, the codes taken for existing,
\* those inserted, the count to report; history: the codes listed for this
\* product when it began.
NoImport == [at |-> "idle", file |-> << >>, commit |-> FALSE, row |-> 1,
             existing |-> {}, inserted |-> {}, imported |-> 0, before |-> {}]
NoIssue == [at |-> "idle", code |-> "none", product |-> "this"]

Running == imp.at \in {"preload", "rows"}

ImportTypeOK ==
    /\ listed \in [Names -> Products \cup {"none"}]
    /\ imp.at \in {"idle", "preload", "rows", "answered", "conflict", "nan"}
    /\ imp.inserted \subseteq {c \in Names : listed[c] = "this"}
    /\ imp.row \in 1 .. Len(imp.file) + 1
    /\ imp.imported \in 0 .. Len(imp.file)
    /\ imp.existing \subseteq Names /\ imp.before \subseteq Names
    /\ iss.at \in {"idle", "check", "create"}

ImportInit ==
    /\ listed = [c \in Names |-> "none"]
    /\ imp = NoImport
    /\ iss = NoIssue

-----------------------------------------------------------------------------
(* importCsv                                                               *)

\* The codes an import skips.  Mutant: those of other products too.
ExistingAnywhere == {c \in Names : listed[c] # "none"}
Existing == {c \in Names : listed[c] = "this"}

StartImport(f, commit) ==
    /\ ~Running
    /\ imp' = [NoImport EXCEPT !.at = "preload", !.file = f, !.commit = commit]
    /\ UNCHANGED <<listed, iss>>

Preload ==
    /\ imp.at = "preload"
    /\ imp' = [imp EXCEPT !.at = "rows", !.existing = Existing,
                          !.before = {c \in Names : listed[c] = "this"}]
    /\ UNCHANGED <<listed, iss>>

Current == imp.file[imp.row]
AtRow == imp.at = "rows" /\ imp.row <= Len(imp.file)

\* An invalid row, and one whose code is taken for existing, are errors.
SkipRow ==
    /\ AtRow /\ Current.code \in {"bad"} \cup imp.existing
    /\ imp' = [imp EXCEPT !.row = @ + 1]
    /\ UNCHANGED <<listed, iss>>

\* A dry run counts every other row.
CountRow ==
    /\ AtRow /\ Current.code \notin {"bad"} \cup imp.existing /\ ~imp.commit
    /\ imp' = [imp EXCEPT !.row = @ + 1, !.imported = @ + 1]
    /\ UNCHANGED <<listed, iss>>

\* What is taken for existing after an insert.  Mutant: it is forgotten.
Forgotten(c) == imp.existing
Remembered(c) == imp.existing \cup {c}

\* The insert.
Inserted(c) == [listed EXCEPT ![c] = "this"]

\* create fails on NaN, and on a hash that is in the table for any product; the
\* exception ends the import, and the rows inserted stay.
InsertRow ==
    LET c == Current.code IN
    /\ AtRow /\ c \notin {"bad"} \cup imp.existing /\ imp.commit
    /\ \/ /\ ~Current.number
          /\ imp' = [imp EXCEPT !.at = "nan"] /\ UNCHANGED listed
       \/ /\ Current.number /\ listed[c] # "none"
          /\ imp' = [imp EXCEPT !.at = "conflict"] /\ UNCHANGED listed
       \/ /\ Current.number /\ listed[c] = "none"
          /\ listed' = Inserted(c)
          /\ imp' = [imp EXCEPT !.row = @ + 1, !.imported = @ + 1,
                                !.existing = Remembered(c), !.inserted = @ \cup {c}]
    /\ UNCHANGED iss

EndImport ==
    /\ imp.at = "rows" /\ imp.row > Len(imp.file)
    /\ imp' = [imp EXCEPT !.at = "answered"]
    /\ UNCHANGED <<listed, iss>>

-----------------------------------------------------------------------------
(* issue                                                                   *)

StartIssue(c, p) ==
    /\ iss.at = "idle"
    /\ iss' = [at |-> "check", code |-> c, product |-> p]
    /\ UNCHANGED <<listed, imp>>

\* CODE_TAKEN ends the request.
CheckIssue ==
    /\ iss.at = "check"
    /\ iss' = IF listed[iss.code] = "none" THEN [iss EXCEPT !.at = "create"] ELSE NoIssue
    /\ UNCHANGED <<listed, imp>>

\* create throws on a code that has been taken since.
CreateIssued ==
    /\ iss.at = "create"
    /\ listed' = [listed EXCEPT ![iss.code] = IF @ = "none" THEN iss.product ELSE @]
    /\ iss' = NoIssue
    /\ UNCHANGED imp

-----------------------------------------------------------------------------
\* The server dies and starts again.
ImportCrash ==
    /\ Running \/ iss.at # "idle"
    /\ imp' = NoImport
    /\ iss' = NoIssue
    /\ UNCHANGED listed

ImportNext ==
    \/ \E f \in Files, commit \in BOOLEAN : StartImport(f, commit)
    \/ Preload \/ SkipRow \/ CountRow \/ InsertRow \/ EndImport
    \/ \E c \in Names, p \in Products : StartIssue(c, p)
    \/ CheckIssue \/ CreateIssued
    \/ ImportCrash

ImportSpec == ImportInit /\ [][ImportNext]_importVars

-----------------------------------------------------------------------------
(* Properties                                                              *)

\* A committing import leaves every valid code of the rows it has passed in the
\* table under its product, whether the code was repeated in the file, was
\* there before, or is issued by somebody else meanwhile: an answered import is
\* complete, and one that broke off can be uploaded again.
ImportComplete ==
    imp.commit =>
      \A i \in 1 .. imp.row - 1 :
        imp.file[i].code # "bad" => listed[imp.file[i].code] = "this"

\* An import breaks off only on a code somebody else has put into the table:
\* never on one it has inserted itself, nor on one its product had already.
AbortNeedsConflict ==
    imp.at = "conflict" => Current.code \notin imp.inserted \cup imp.before

\* A dry run answers with the rows whose code is new, a commit with the new
\* codes, each inserted once: so a commit can import less than was promised
\* for the same file only where a code is repeated or the import breaks off,
\* whatever is issued meanwhile.
NewRows == {i \in 1 .. Len(imp.file) : imp.file[i].code \notin {"bad"} \cup imp.before}
NewCodes == {imp.file[i].code : i \in NewRows}
AnswerCountsNew ==
    imp.at = "answered" =>
      imp.imported = IF imp.commit THEN Cardinality(NewCodes) ELSE Cardinality(NewRows)
=============================================================================
