------------------------------- MODULE MCMenu -------------------------------
(* What TLC needs to check Menu.  Three languages fill one page and begin    *)
(* another; in a second folder the first does not say its name, and there    *)
(* are entries that are not languages and one that ends the listing.         *)
EXTENDS Menu

CONSTANTS cz, de, fr, xx, readme, damaged, link

With(is) == [is |-> is, gives |-> TRUE, below |-> <<>>]
Empty(is) == [is |-> is, gives |-> FALSE, below |-> <<>>]
WithMenu(sections) == [is |-> "Menu", gives |-> TRUE, below |-> sections]
File(name, entry, sections) == [file |-> name, entry |-> entry, sections |-> sections]

\* Czech has everything, German lacks sections and has some after Menu, French has
\* its name twice and sections without texts.
Czech == File(cz, "language",
  <<With("Language"), With("Greeting"), With("Items"), With("NewLevel"), With("NewbieText"),
    With("ExpHintBox"), With("rpgrank"), With("rpgtop10"),
    WithMenu(<<With("Text"), With("Result"), With("Options"), With("Confirm"), With("Help"),
               With("Misc")>>)>>)
German == File(de, "language", <<With("Language"), WithMenu(<<With("Help")>>), With("Items")>>)
French == File(fr, "language",
  <<Empty("Language"), With("Language"), Empty("Items"), WithMenu(<<Empty("Text"), With("Misc")>>)>>)
Nobodys == File(xx, "language", <<With("Items"), Empty("rpgrank")>>)

MCFolders ==
  {<<Czech, German, French>>,
   <<File(readme, "other", <<>>), Nobodys, File(damaged, "unreadable", <<>>), French,
     File(link, "gone", <<>>), German>>}
=============================================================================
