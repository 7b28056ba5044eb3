------------------------------ MODULE Languages ------------------------------
(* What LoadLanguages makes of the folder of language files (CRPG_TextDB).     *)
(*                                                                           *)
(* The 52 texts of a language are grouped by the section of a file that sets *)
(* them: the code reads and assigns the texts of a section together.  A file *)
(* is a sequence of sections, in any order, any of them missing, repeated or *)
(* without its texts; those of Menu have sections of their own.  The texts   *)
(* of a language say whose they are: those of a file or the built-in ones.   *)
(* The contents of a file do not change: an edited file is another file.     *)
EXTENDS Naturals, Sequences, SequencesExt

CONSTANTS
  Folders,      \* what the folder may hold: sequences of files
  Default,      \* the language that is built in
  NoText        \* a text that is not set

Sections == {"Greeting", "Items", "NewLevel", "NewbieText", "ExpHintBox", "rpgrank", "rpgtop10"}
MenuSections == {"Text", "Result", "Options", "Confirm", "Help", "Misc"}

\* No section of a file has the names of Impulse and Medic.
Texts == Sections \cup MenuSections \cup {"ImpulseAndMedic"}

\* How far LoadLanguages gets with a directory entry: it cannot be looked at (which
\* ends the listing), it is not a text file, it cannot be read or parsed, or it
\* is a language.
Entries == {"gone", "other", "unreadable", "language"}

Files == UNION {ToSet(f) : f \in Folders}
Names == {f.file : f \in Files}

ASSUME FoldersAssumption ==
  /\ Folders # {} /\ Folders \subseteq Seq(Files)
  /\ \A f \in Files : f.entry \in Entries /\ \A g \in Files : f.file = g.file => f = g
  /\ {Default, NoText} \cap Names = {} /\ Default # NoText

-----------------------------------------------------------------------------

\* What becomes of a text that is `key' so far.  An empty text is no text.
assign_key(key, gives, text) == IF gives THEN text ELSE key

\* The sections that are read of a file: those before its first Menu, then the
\* sections of that Menu.
Read(f) ==
  LET at == SelectInSeq(f.sections, LAMBDA s : s.is = "Menu")
      top == IF at = 0 THEN f.sections ELSE SubSeq(f.sections, 1, at - 1)
      below == IF at = 0 THEN <<>> ELSE f.sections[at].below
  IN SelectSeq(top, LAMBDA s : s.is \notin MenuSections)
       \o SelectSeq(below, LAMBDA s : s.is \in MenuSections)

\* A section may come more than once: one that gives its texts is enough.
Gives(f, t) == \E s \in ToSet(Read(f)) : s.is = t /\ s.gives

\* The texts `txt' once f has been read.
parse_txtfile(f, txt) == [t \in Texts |-> assign_key(txt[t], Gives(f, t), f.file)]

\* The last Language section names the language, or leaves it without a name.
IsNamed(f) ==
  LET language == SelectSeq(Read(f), LAMBDA s : s.is = "Language")
  IN language # <<>> /\ Last(language).gives

LoadDefault == [t \in Texts |-> Default]

\* A new language starts from the built-in texts.
NewTextDB(f) == parse_txtfile(f, LoadDefault)

\* traverse_dir, called with 0, 1, 2 ... until it fails.
Traversed(folder) ==
  LET gone == SelectInSeq(folder, LAMBDA f : f.entry = "gone")
  IN IF gone = 0 THEN folder ELSE SubSeq(folder, 1, gone - 1)

\* The names of the files, of which Default is not one.
LoadLanguages(folder) ==
  LET found == Traversed(folder)
  IN <<Default>> \o FlattenSeq([k \in DOMAIN found |->
       IF found[k].entry = "language" THEN <<found[k].file>> ELSE <<>>])

\* The texts of a language that is loaded.
TextsOf ==
  [name \in {Default} \cup {f.file : f \in {g \in Files : g.entry = "language"}} |->
     IF name = Default THEN LoadDefault ELSE NewTextDB(CHOOSE f \in Files : f.file = name)]

Lists == {LoadLanguages(folder) : folder \in Folders}

\* Languages that have a text that is not set.
Incomplete == {name \in DOMAIN TextsOf : \E t \in Texts : TextsOf[name][t] = NoText}

\* Those whose name AddOption refuses.
Nameless == {f.file : f \in {g \in Files : ~IsNamed(g)}}
=============================================================================
