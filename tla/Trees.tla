------------------------------- MODULE Trees -------------------------------
(***************************************************************************)
(* Trees of files and directories, as both panels browse them: the server  *)
(* in RemoteBrowser, the local disk in LocalPanel.  A path is the sequence *)
(* of its names, the root is <<>>; what is there is "none", "file" or      *)
(* "dir".                                                                  *)
(*                                                                         *)
(* What the program hands on is the text of a path, in which ".." may      *)
(* stand between names; where it leads is for the disk or the server to    *)
(* say.                                                                    *)
(***************************************************************************)
EXTENDS Integers, Sequences, FiniteSets, SequencesExt

CONSTANTS
    Name,           \* file names
    Path,           \* bound: the paths that there can be, the root first of all
    Text,           \* bound: the texts of paths that are handed on
    Leads           \* the path that a text leads to

ASSUME PathAssumption ==
    /\ Path \subseteq Seq(Name)
    /\ <<>> \in Path
    /\ \A p \in Path : \A n \in 0..Len(p) : SubSeq(p, 1, n) \in Path

\* The parts of a typed name, split at "/": a name, ".." ("above"), "."
\* ("here") or nothing, as before a leading and after a trailing separator.
Part == Name \cup {"above", "here", "nothing"}

ASSUME PartAssumption == Name \cap {"above", "here", "nothing"} = {}

\* Texts are read from left to right; above the root is the root.
ASSUME TextAssumption ==
    /\ Text \subseteq Seq(Name \cup {"above"}) /\ Path \subseteq Text
    /\ \A x \in Text : \A n \in 0..Len(x) : SubSeq(x, 1, n) \in Text
    /\ Leads \in [Text -> Path]
    /\ Leads[<<>>] = <<>>
    /\ \A x \in Text, n \in Name :
         Append(x, n) \in Text => Leads[Append(x, n)] = Append(Leads[x], n)
    /\ \A x \in Text : Append(x, "above") \in Text =>
         Leads[Append(x, "above")] = IF Leads[x] = <<>> THEN <<>> ELSE Front(Leads[x])

\* A separator too many and "." change nothing.
Kept(typed) == SelectSeq(typed, LAMBDA part : part \notin {"here", "nothing"})

\* valid_target, for a typed name that is not blank
ValidName(typed) == typed \notin {<<"nothing">>, <<"here">>, <<"above">>}

Tree == [Path -> {"none", "file", "dir"}]

\* Nothing hangs in the air: all above it is directories.
Grown(t) == \A p, q \in Path : t[p] # "none" /\ IsStrictPrefix(q, p) => t[q] = "dir"

IsDir(t, p) == p \in Path /\ t[p] = "dir"

\* The disk comes through the text to a directory.
Reached(t, text) ==
    \A n \in 0..Len(text) : IsDir(t, Leads[SubSeq(text, 1, n)])

\* The disk comes to a directory and there is a name in it.
CanName(t, text) == text # <<>> /\ Last(text) \in Name /\ Reached(t, Front(text))

Contents(t, dir) ==
    LET names == {n \in Name : Append(dir, n) \in Path /\ t[Append(dir, n)] # "none"}
    IN  [n \in names |-> t[Append(dir, n)]]

Entries == UNION {[names -> {"file", "dir"}] : names \in SUBSET Name}
NoEntries == [n \in {} |-> "file"]

\* A listing of either panel.
ListingsOf(paths) == [path : paths, entries : Entries]
ListingOf(path, entries) == [path |-> path, entries |-> entries]

\* Where p is when what was at from is at to.
Rebased(p, from, to) == to \o SubSeq(p, Len(from) + 1, Len(p))

\* There is room for all that is below from to be below to.
Fits(t, from, to) ==
    \A p \in Path : IsPrefix(from, p) /\ t[p] # "none" => Rebased(p, from, to) \in Path

\* Everything below from is afterwards below to, which is not below it.
Moved(t, from, to) == [p \in Path |->
    IF IsPrefix(to, p) /\ Rebased(p, to, from) \in Path THEN t[Rebased(p, to, from)]
    ELSE IF IsPrefix(from, p) THEN "none"
    ELSE t[p]]
=============================================================================
