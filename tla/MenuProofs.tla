------------------------------ MODULE MenuProofs ------------------------------
(***************************************************************************)
(* What TLAPS proves of Menu for every number of clients, upgrades and     *)
(* lines to a page, whatever the folder of languages holds and however     *)
(* often it is loaded again.                                               *)
(***************************************************************************)
EXTENDS Menu, Recursion

-----------------------------------------------------------------------------
(* Lists of lines.                                                         *)

\* One or no line for each of n things: at most n lines, of those.
LEMMA LinesOfAll ==
  ASSUME NEW S, NEW n \in Nat, NEW s \in [1..n -> {<<>>} \cup {<<x>> : x \in S}]
  PROVE  FlattenSeq(s) \in Seq(S) /\ Len(FlattenSeq(s)) <= n
<1> DEFINE V == Seq(S)
           next == [i \in 1..n |-> [t \in V |-> t \o s[i]]]
           flatten[i \in 1..n] == IF i = 1 THEN s[i] ELSE flatten[i - 1] \o s[i]
<1>1. \A i \in 1..n : s[i] \in V /\ Len(s[i]) <= 1
  <2> SUFFICES ASSUME NEW i \in 1..n PROVE s[i] \in V /\ Len(s[i]) <= 1
    OBVIOUS
  <2>1. s[i] \in {<<>>} \cup {<<x>> : x \in S}
    OBVIOUS
  <2>2. CASE s[i] = <<>>
    BY <2>2
  <2>3. CASE s[i] # <<>>
    <3>1. PICK x \in S : s[i] = <<x>>
      BY <2>1, <2>3
    <3> QED BY <3>1
  <2> QED BY <2>2, <2>3
<1>2. s \in Seq({<<>>} \cup {<<x>> : x \in S}) /\ Len(s) = n
  OBVIOUS
<1>3. CASE n = 0
  <2>1. s = <<>>
    BY <1>2, <1>3
  <2> QED BY <2>1, <1>3 DEF FlattenSeq
<1>4. CASE n > 0
  <2>1. next \in [1..n -> [V -> V]]
    BY <1>1
  <2>2. \A i \in 1..n, t \in V : next[i][t] = t \o s[i]
    OBVIOUS
  <2>3. s[1] \in V /\ 1 \in Int /\ n \in Int /\ 1 <= n
    BY <1>1, <1>4
  <2> HIDE DEF next
  <2>4. PICK f : Follows(f, 1, n, V, s[1], next)
    BY <2>1, <2>3, RecursiveFunction
  <2>5. f \in [1..n -> V] /\ f[1] = s[1]
    BY <2>3, <2>4 DEF Follows
  <2>6. \A i \in 2..n : f[i] = next[i][f[i - 1]]
    BY <2>4 DEF Follows
  <2>7. f = [i \in 1..n |-> IF i = 1 THEN s[i] ELSE f[i - 1] \o s[i]]
    <3>1. ASSUME NEW i \in 1..n, i # 1 PROVE f[i] = f[i - 1] \o s[i]
      <4>1. i \in 2..n /\ i - 1 \in 1..n
        BY <3>1
      <4> QED BY <2>2, <2>5, <2>6, <4>1
    <3> QED BY <2>5, <3>1
  <2>8. flatten = [i \in 1..n |-> IF i = 1 THEN s[i] ELSE flatten[i - 1] \o s[i]]
    BY <2>7, Zenon
  <2>9. FlattenSeq(s) = flatten[n]
    BY <1>2, <1>4 DEF FlattenSeq
  <2> HIDE DEF flatten
  <2> DEFINE T == {i \in 1..n : flatten[i] \in V /\ Len(flatten[i]) <= i}
  <2>10. 1 \in T
    BY <1>1, <2>3, <2>8
  <2>11. ASSUME NEW i \in 1..(n - 1), i \in T PROVE i + 1 \in T
    <3>1. i + 1 \in 1..n /\ i + 1 # 1 /\ (i + 1) - 1 = i
      OBVIOUS
    <3>2. flatten[i + 1] = flatten[i] \o s[i + 1]
      BY <2>8, <3>1
    <3>3. flatten[i] \in V /\ Len(flatten[i]) <= i
      BY <2>11
    <3>4. s[i + 1] \in V /\ Len(s[i + 1]) <= 1
      BY <1>1, <3>1
    <3>5. flatten[i] \o s[i + 1] \in V
      BY <3>3, <3>4
    <3>6. Len(flatten[i] \o s[i + 1]) = Len(flatten[i]) + Len(s[i + 1])
      BY <3>3, <3>4
    <3>7. Len(flatten[i]) \in Nat /\ Len(s[i + 1]) \in Nat
      BY <3>3, <3>4
    <3> HIDE DEF V
    <3>8. Len(flatten[i + 1]) <= i + 1
      <4> DEFINE a == Len(flatten[i])
                 b == Len(s[i + 1])
      <4>1. a \in Nat /\ b \in Nat /\ a <= i /\ b <= 1 /\ i \in Int
        BY <3>3, <3>4, <3>7
      <4>2. Len(flatten[i + 1]) = a + b
        BY <3>2, <3>6
      <4> HIDE DEF a, b
      <4> QED BY <4>1, <4>2
    <3> QED BY <3>1, <3>2, <3>5, <3>8
  <2> HIDE DEF T
  <2>12. 1..n \subseteq T
    BY <2>3, <2>10, <2>11, AllOfInterval
  <2>13. n \in T
    BY <2>3, <2>12
  <2> QED BY <2>9, <2>13 DEF T
<1> QED BY <1>3, <1>4

\* The listing of a folder holds files of that folder.
LEMMA TraversedFiles ==
  ASSUME NEW folder \in Folders
  PROVE  Traversed(folder) \in Seq(Files)
<1> DEFINE I == {i \in 1..Len(folder) : folder[i].entry = "gone"}
           gone == IF I # {} THEN Min(I) ELSE 0
<1>1. folder \in Seq(Files)
  BY FoldersAssumption
<1>2. Traversed(folder) = IF gone = 0 THEN folder ELSE SubSeq(folder, 1, gone - 1)
  BY DEF Traversed, SelectInSeq
<1>3. gone \in 0..Len(folder)
  <2>1. I \in SUBSET Nat
    OBVIOUS
  <2>2. ASSUME I # {} PROVE Min(I) \in I
    <3> HIDE DEF I
    <3>1. \E m \in I : \A k \in I : m <= k
      BY <2>1, <2>2, LeastNumber
    <3> QED BY <3>1 DEF Min
  <2> QED BY <1>1, <2>2
<1> HIDE DEF gone
<1>4. ASSUME gone # 0 PROVE SubSeq(folder, 1, gone - 1) \in Seq(Files)
  BY <1>1, <1>3, <1>4
<1> QED BY <1>1, <1>2, <1>4

\* Whatever the folder holds, the list of languages is Default and names of files.
LEMMA ListNames ==
  ASSUME NEW list \in Lists
  PROVE  /\ list \in Seq(Names \cup {Default}) /\ list # <<>> /\ list[1] = Default
         /\ Tail(list) \in Seq(Names) /\ Len(Tail(list)) <= 2 * PageSize
<1>1. PICK folder \in Folders : list = LoadLanguages(folder)
  BY DEF Lists
<1> DEFINE found == Traversed(folder)
           named == [k \in DOMAIN found |->
                       IF found[k].entry = "language" THEN <<found[k].file>> ELSE <<>>]
           names == FlattenSeq(named)
<1>2. found \in Seq(Files)
  BY TraversedFiles
<1> HIDE DEF found
<1>3. named \in [1..Len(found) -> {<<>>} \cup {<<x>> : x \in Names}] /\ Len(found) \in Nat
  <2>1. DOMAIN found = 1..Len(found) /\ Len(found) \in Nat
    BY <1>2
  <2>2. \A k \in 1..Len(found) : found[k].file \in Names
    BY <1>2 DEF Names
  <2> QED BY <2>1, <2>2
<1>4. names \in Seq(Names)
  <2> HIDE DEF named
  <2> QED BY <1>3, LinesOfAll
<1>5. list = <<Default>> \o names
  BY <1>1 DEF LoadLanguages, found
<1> HIDE DEF names
<1>6. list \in Seq(Names \cup {Default}) /\ Len(list) = Len(names) + 1 /\ list[1] = Default
  BY <1>4, <1>5
<1>7. Tail(list) = names
  <2>1. \A i \in 1..Len(names) : list[i + 1] = names[i]
    BY <1>4, <1>5
  <2>2. Tail(list) \in Seq(Names \cup {Default}) /\ Len(Tail(list)) = Len(names)
        /\ \A i \in 1..Len(names) : Tail(list)[i] = list[i + 1]
    BY <1>4, <1>6
  <2> QED BY <1>4, <2>1, <2>2
<1>8. Len(list) <= 2 * PageSize + 1
  BY MenuConstants
<1>9. Len(Tail(list)) <= 2 * PageSize
  BY <1>4, <1>6, <1>7, <1>8, MenuConstants
<1>10. list # <<>>
  <2>1. Len(names) \in Nat
    BY <1>4
  <2> QED BY <1>6, <2>1
<1> QED BY <1>4, <1>6, <1>7, <1>9, <1>10

\* Whatever its file lacks, repeats or leaves empty, no language has a text that is
\* not set: a new one starts from the built-in texts.
LEMMA NoneIncomplete == Incomplete = {}
<1> SUFFICES ASSUME NEW name \in DOMAIN TextsOf, NEW t \in Texts, TextsOf[name][t] = NoText
             PROVE  FALSE
  BY DEF Incomplete
<1>1. Default # NoText /\ NoText \notin Names
  BY FoldersAssumption
<1>2. LoadDefault[t] = Default
  BY DEF LoadDefault
<1>3. CASE name = Default
  <2>1. TextsOf[name] = LoadDefault
    BY <1>3 DEF TextsOf
  <2> QED BY <1>1, <1>2, <2>1
<1>4. CASE name # Default
  <2> DEFINE f == CHOOSE g \in Files : g.file = name
  <2>1. f \in Files
    BY <1>4 DEF TextsOf
  <2>2. f.file \in Names
    BY <2>1 DEF Names
  <2>3. TextsOf[name] = NewTextDB(f)
    BY <1>4 DEF TextsOf
  <2> HIDE DEF f
  <2>4. NewTextDB(f)[t] = assign_key(LoadDefault[t], Gives(f, t), f.file)
    BY DEF NewTextDB, parse_txtfile
  <2>5. NewTextDB(f)[t] \in {Default, f.file}
    BY <1>2, <2>4 DEF assign_key
  <2> QED BY <1>1, <2>2, <2>3, <2>5
<1> QED BY <1>3, <1>4

-----------------------------------------------------------------------------
(* The inductive invariant.                                                *)

Player == [online : BOOLEAN, level : [Items -> 0..MaxLevel],
           lang : Names \cup {Default, Freed}, lang_is_set : BOOLEAN]

\* A node, and what one is turned into before its page is drawn, which may not be there.
NodeOfPage(pages) == [open : BOOLEAN, submenu : Submenus, page : pages, ia : 0..TooLarge,
                      lines : Seq(Line)]
Node == NodeOfPage(0..MaxPage)
Draft == NodeOfPage(Nat)

Typed ==
  /\ enable \in BOOLEAN /\ enabled \in SUBSET Items /\ broken \in BOOLEAN /\ langs \in Lists
  /\ client \in [Clients -> Player] /\ menu \in [Clients -> Node]
  /\ shown = [c \in Clients |-> shown[c]] /\ screen = [c \in Clients |-> screen[c]]
  /\ \A c \in Clients : DOMAIN shown[c] \subseteq Numbers /\ DOMAIN screen[c] \subseteq Numbers

\* What was drawn last is what would be drawn again, on a page that has lines.
Kept(m, drawn) ==
  /\ m.open => drawn \in GetMenu(m)
  /\ ~m.open => m = NoMenu /\ drawn = Blank
  /\ Len(m.lines) <= 2 * PageSize
  /\ IsList(m) /\ m.lines # <<>> => OnPage(m) # {}
  /\ m.submenu = "none" => m.lines = <<>> /\ m.ia = 0 /\ m.page = 0
  /\ m.submenu = "settings" /\ m.ia # 1 => m.lines = <<>> /\ m.page = 0

MenuInv ==
  /\ Typed
  /\ \A c \in Clients : (menu[c].open => client[c].online) /\ Kept(menu[c], shown[c])

-----------------------------------------------------------------------------
(* Pages.                                                                  *)

LEMMA PageOf ==
  ASSUME NEW k \in 1..(2 * PageSize)
  PROVE  Page(k) = IF k <= PageSize THEN 0 ELSE 1
BY MenuConstants DEF Page

LEMMA PageIndexOf ==
  ASSUME NEW k \in 1..(2 * PageSize)
  PROVE  PageIndex(k) = IF k <= PageSize THEN k ELSE k - PageSize
BY MenuConstants DEF PageIndex

\* The first page has lines when there are any, the second when they are more than
\* fit on one, and there is no third.
LEMMA Pages ==
  ASSUME NEW m \in Draft, Len(m.lines) <= 2 * PageSize
  PROVE  /\ Len(m.lines) \in Nat /\ (Len(m.lines) = 0 <=> m.lines = <<>>)
         /\ OnPage(m) = {k \in 1..Len(m.lines) : IF k <= PageSize THEN m.page = 0 ELSE m.page = 1}
         /\ m.page = 0 /\ m.lines # <<>> => OnPage(m) # {}
         /\ m.page > 1 => OnPage(m) = {}
<1>1. m.lines \in Seq(Line) /\ m.page \in Nat
  BY DEF Draft, NodeOfPage
<1>2. Len(m.lines) \in Nat /\ DOMAIN m.lines = 1..Len(m.lines) /\ (Len(m.lines) = 0 <=> m.lines = <<>>)
  BY <1>1
<1>3. \A k \in 1..Len(m.lines) : Page(k) = IF k <= PageSize THEN 0 ELSE 1
  <2> SUFFICES ASSUME NEW k \in 1..Len(m.lines) PROVE Page(k) = IF k <= PageSize THEN 0 ELSE 1
    OBVIOUS
  <2>1. k \in 1..(2 * PageSize)
    BY <1>2, MenuConstants
  <2> QED BY <2>1, PageOf
<1>4. OnPage(m) = {k \in 1..Len(m.lines) : IF k <= PageSize THEN m.page = 0 ELSE m.page = 1}
  BY <1>2, <1>3 DEF OnPage
<1>5. ASSUME m.page = 0, m.lines # <<>> PROVE 1 \in OnPage(m)
  BY <1>2, <1>4, <1>5, MenuConstants
<1>6. ASSUME m.page > 1 PROVE OnPage(m) = {}
  BY <1>1, <1>4, <1>6
<1> QED BY <1>2, <1>4, <1>5, <1>6

\* The last line of a page.
LEMMA LastOf ==
  ASSUME NEW m \in Draft, Len(m.lines) <= 2 * PageSize, OnPage(m) # {}
  PROVE  LastOnPage(m) = IF m.page = 0 /\ Len(m.lines) > PageSize THEN PageSize ELSE Len(m.lines)
<1> DEFINE n == Len(m.lines)
           last == IF m.page = 0 /\ n > PageSize THEN PageSize ELSE n
<1>1. n \in Nat /\ PageSize \in Nat /\ PageSize > 0
  BY Pages, MenuConstants
<1>2. OnPage(m) = {k \in 1..n : IF k <= PageSize THEN m.page = 0 ELSE m.page = 1}
  BY Pages
<1> HIDE DEF n
<1>3. last \in OnPage(m) /\ \A j \in OnPage(m) : j <= last
  BY <1>1, <1>2
<1>4. \A k \in OnPage(m) : (\A j \in OnPage(m) : j <= k) => k = last
  <2>1. \A k \in OnPage(m) : k \in Int
    BY <1>1, <1>2
  <2> HIDE DEF last
  <2> QED BY <1>3, <2>1
<1> HIDE DEF last
<1>5. LastOnPage(m) = last
  BY <1>3, <1>4 DEF LastOnPage
<1> QED BY <1>5 DEF last, n

\* A number stands for one line of a page, if for any.
LEMMA FoundOne ==
  ASSUME NEW m \in Draft, Len(m.lines) <= 2 * PageSize
  PROVE  /\ \A k \in OnPage(m) : PageIndex(k) \in 1..PageSize
         /\ \A k, j \in OnPage(m) : PageIndex(k) = PageIndex(j) => k = j
<1>1. Len(m.lines) \in Nat /\ PageSize \in Nat
      /\ OnPage(m) = {k \in 1..Len(m.lines) : IF k <= PageSize THEN m.page = 0 ELSE m.page = 1}
  BY Pages, MenuConstants
<1>2. \A k \in OnPage(m) : k \in 1..(2 * PageSize)
  BY <1>1
<1>3. \A k \in OnPage(m) : PageIndex(k) = IF m.page = 0 THEN k ELSE k - PageSize
  BY <1>1, <1>2, PageIndexOf
<1>4. \A k \in OnPage(m) : k \in Int /\ (m.page = 0 => k <= PageSize) /\ (m.page # 0 => k > PageSize)
                           /\ k >= 1 /\ k <= 2 * PageSize
  BY <1>1
<1>5. \A k \in OnPage(m) : PageIndex(k) \in 1..PageSize
  BY <1>1, <1>3, <1>4
<1>6. \A k, j \in OnPage(m) : PageIndex(k) = PageIndex(j) => k = j
  BY <1>1, <1>3, <1>4
<1> QED BY <1>5, <1>6

-----------------------------------------------------------------------------
(* What a page shows.                                                      *)

LEMMA NumbersFacts ==
  /\ PageSize \in Nat /\ PageSize > 1 /\ Previous = PageSize + 1 /\ Forth = PageSize + 2
  /\ Exit = PageSize + 3 /\ Numbers = 1..(PageSize + 3) /\ MaxPage \in Nat
  /\ TooLarge = PageSize + 5 /\ Arguments = 1..(PageSize + 5)
BY MenuConstants DEF Previous, Forth, Exit, Numbers, TooLarge, Arguments

\* Whatever is drawn, the numbers that it shows are on the keys of a menu.
LEMMA ListScreenNumbers ==
  ASSUME NEW m \in Draft, Len(m.lines) <= 2 * PageSize, NEW does, NEW lines \in SUBSET OnPage(m)
  PROVE  DOMAIN ListScreen(m, does, lines) \subseteq Numbers
<1>1. DOMAIN ListScreen(m, does, lines) = {PageIndex(k) : k \in lines} \cup PreviousNext(m) \cup {Exit}
  BY DEF ListScreen
<1>2. \A k \in lines : PageIndex(k) \in 1..PageSize
  BY FoundOne
<1> QED BY <1>1, <1>2, NumbersFacts DEF PreviousNext

LEMMA SetOptionsNumbers ==
  ASSUME NEW ns \in SUBSET (1..(PageSize + 2))
  PROVE  DOMAIN SetOptions(ns) \subseteq Numbers
BY NumbersFacts DEF SetOptions

LEMMA DrawnNumbers ==
  ASSUME NEW m \in Draft, Len(m.lines) <= 2 * PageSize, NEW drawn \in GetMenu(m)
  PROVE  DOMAIN drawn \subseteq Numbers
<1>1. DOMAIN Always \subseteq Numbers /\ DOMAIN GetStatsPage \subseteq Numbers
      /\ DOMAIN SetOptions(1..(PageSize + 2)) \subseteq Numbers
      /\ DOMAIN SetOptions({1, 2}) \subseteq Numbers
  BY SetOptionsNumbers, NumbersFacts DEF Always, GetStatsPage
<1>2. \A does, what : DOMAIN Confirm(does, what) \subseteq Numbers
  BY <1>1 DEF Confirm
<1>3. \A does : DOMAIN ListScreen(m, does, OnPage(m)) \subseteq Numbers
  BY ListScreenNumbers
<1>4. m.submenu \in Submenus
  BY DEF Draft, NodeOfPage
<1>5. CASE m.submenu = "none"
  <2>1. 1..5 \subseteq Numbers
    BY NumbersFacts
  <2>2. DOMAIN MainPage \subseteq Numbers
    BY <2>1, NumbersFacts DEF MainPage, SetOptions
  <2> QED BY <1>5, <2>2 DEF GetMenu
<1>6. CASE m.submenu = "upgrades"
  BY <1>1, <1>3, <1>6 DEF GetMenu, GetUpgradesPage
<1>7. CASE m.submenu = "sell"
  BY <1>1, <1>2, <1>3, <1>7 DEF GetMenu, GetSellPage
<1>8. CASE m.submenu = "stats"
  BY <1>1, <1>8 DEF GetMenu
<1>9. CASE m.submenu = "settings"
  <2>1. DOMAIN LanguagePage(m) \subseteq Numbers
    BY <1>1, ListScreenNumbers DEF LanguagePage
  <2> QED BY <1>1, <1>2, <1>9, <2>1 DEF GetMenu, GetSettingsPage
<1>10. CASE m.submenu = "help"
  <2>1. 1..4 \subseteq Numbers
    BY NumbersFacts
  <2>2. DOMAIN GetHelpPage \subseteq Numbers
    BY <2>1, NumbersFacts DEF GetHelpPage, SetOptions
  <2> QED BY <1>10, <2>2 DEF GetMenu
<1>11. CASE m.submenu = "top10"
  BY <1>1, <1>11 DEF GetMenu, GetTop10Pages
<1> QED BY <1>4, <1>5, <1>6, <1>7, <1>8, <1>9, <1>10, <1>11 DEF Submenus

-----------------------------------------------------------------------------
(* Drawing a menu.                                                         *)

\* The lines that a list gets: of upgrades or languages, two pages at most.
LEMMA NewLines ==
  ASSUME Typed, NEW c \in Clients
  PROVE  \A lines \in {UpgradeLines(c), SellLines(c), LanguageLines(c)} :
           lines \in Seq(Line) /\ Len(lines) <= 2 * PageSize
<1> DEFINE one == {<<>>} \cup {<<x>> : x \in Line}
<1>1. ItemCount \in Nat /\ ItemCount <= 2 * PageSize /\ PageSize \in Nat
  BY MenuConstants
<1>2. \A x \in Items \cup Names, can \in BOOLEAN : AddOption(x, can) \in one
  BY DEF AddOption, Line
<1>3. <<>> \in one
  OBVIOUS
<1> HIDE DEF one
<1>4. UpgradeLines(c) \in Seq(Line) /\ Len(UpgradeLines(c)) <= ItemCount
  <2> DEFINE s == [i \in Items |-> IF i \in enabled THEN AddOption(i, TRUE) ELSE <<>>]
  <2>1. s \in [1..ItemCount -> one]
    BY <1>2, <1>3 DEF Items
  <2> HIDE DEF s
  <2>2. FlattenSeq(s) \in Seq(Line) /\ Len(FlattenSeq(s)) <= ItemCount
    BY <1>1, <2>1, LinesOfAll DEF one
  <2> QED BY <2>2 DEF UpgradeLines, s
<1>5. SellLines(c) \in Seq(Line) /\ Len(SellLines(c)) <= ItemCount
  <2> DEFINE s == [i \in Items |-> IF client[c].level[i] = 0 \/ i \notin enabled THEN <<>>
                                   ELSE AddOption(i, TRUE)]
  <2>1. s \in [1..ItemCount -> one]
    BY <1>2, <1>3 DEF Items
  <2> HIDE DEF s
  <2>2. FlattenSeq(s) \in Seq(Line) /\ Len(FlattenSeq(s)) <= ItemCount
    BY <1>1, <2>1, LinesOfAll DEF one
  <2> QED BY <2>2 DEF SellLines, s
<1>6. LanguageLines(c) \in Seq(Line) /\ Len(LanguageLines(c)) <= 2 * PageSize
  <2> DEFINE t == Tail(langs)
             again(name) == client[c].lang_is_set /\ name = client[c].lang
             line(name) == IF name \in Nameless THEN <<>> ELSE AddOption(name, ~again(name))
             s == [k \in DOMAIN t |-> line(t[k])]
  <2>1. t \in Seq(Names) /\ Len(t) <= 2 * PageSize
    BY ListNames DEF Typed
  <2>2. client[c].lang_is_set \in BOOLEAN
    BY DEF Typed, Player
  <2>3. \A name \in Names : line(name) \in one
    BY <1>2, <1>3, <2>2
  <2>4. LanguageLines(c) = FlattenSeq(s)
    BY DEF LanguageLines
  <2> HIDE DEF t, line
  <2>5. Len(t) \in Nat /\ DOMAIN t = 1..Len(t) /\ \A k \in 1..Len(t) : t[k] \in Names
    BY <2>1
  <2>6. s \in [1..Len(t) -> one]
    BY <2>3, <2>5
  <2> HIDE DEF s
  <2>7. FlattenSeq(s) \in Seq(Line) /\ Len(FlattenSeq(s)) <= Len(t)
    BY <2>5, <2>6, LinesOfAll DEF one
  <2>8. Len(FlattenSeq(s)) \in Nat
    BY <2>7
  <2> QED BY <1>1, <2>1, <2>4, <2>5, <2>7, <2>8
<1>7. Len(UpgradeLines(c)) \in Nat /\ Len(SellLines(c)) \in Nat
  BY <1>4, <1>5
<1>8. Len(UpgradeLines(c)) <= 2 * PageSize /\ Len(SellLines(c)) <= 2 * PageSize
  BY <1>1, <1>4, <1>5, <1>7
<1> QED BY <1>4, <1>5, <1>6, <1>8

LEMMA ListedDraft ==
  ASSUME Typed, NEW c \in Clients, NEW m \in Draft, Len(m.lines) <= 2 * PageSize
  PROVE  /\ Listed(c, m) \in Draft /\ Len(Listed(c, m).lines) <= 2 * PageSize
         /\ Listed(c, m).open = m.open /\ Listed(c, m).submenu = m.submenu
         /\ Listed(c, m).page = m.page /\ Listed(c, m).ia = m.ia
         /\ ~IsList(m) \/ m.lines # <<>> => Listed(c, m) = m
<1>1. CASE ~IsList(m) \/ m.lines # <<>>
  BY <1>1 DEF Listed
<1>2. CASE IsList(m) /\ m.lines = <<>>
  <2>1. PICK lines \in {UpgradeLines(c), SellLines(c), LanguageLines(c)} :
          Listed(c, m) = [m EXCEPT !.lines = lines]
    BY <1>2 DEF Listed, IsList
  <2>2. lines \in Seq(Line) /\ Len(lines) <= 2 * PageSize
    BY NewLines
  <2> QED BY <1>2, <2>1, <2>2 DEF Draft, NodeOfPage
<1> QED BY <1>1, <1>2

LEMMA EndKept ==
  ASSUME NEW m \in Draft
  PROVE  /\ AtTheEnd(m) \in Draft /\ GetMenu(AtTheEnd(m)) = GetMenu(m)
         /\ OnPage(AtTheEnd(m)) = OnPage(m) /\ AtTheEnd(m).open = m.open
         /\ AtTheEnd(m).submenu = m.submenu /\ AtTheEnd(m).page = m.page
         /\ AtTheEnd(m).lines = m.lines /\ (m.submenu # "upgrades" => AtTheEnd(m) = m)
         /\ (IsList(AtTheEnd(m)) <=> IsList(m))
<1>1. CASE AtTheEnd(m) = m
  BY <1>1
<1>2. CASE AtTheEnd(m) # m
  <2>1. AtTheEnd(m) = [m EXCEPT !.ia = 1] /\ m.submenu = "upgrades"
    BY <1>2 DEF AtTheEnd
  <2> DEFINE x == AtTheEnd(m)
  <2>2. x.open = m.open /\ x.submenu = m.submenu /\ x.page = m.page /\ x.lines = m.lines
        /\ x.ia = 1 /\ x \in Draft
    BY <2>1, NumbersFacts DEF Draft, NodeOfPage
  <2> HIDE DEF x
  <2>3. OnPage(x) = OnPage(m)
    BY <2>2 DEF OnPage
  <2>4. LastOnPage(x) = LastOnPage(m)
    BY <2>3 DEF LastOnPage
  <2>5. PreviousNext(x) = PreviousNext(m)
    BY <2>2, <2>4 DEF PreviousNext
  <2>6. ListScreen(x, "buy", OnPage(x)) = ListScreen(m, "buy", OnPage(m))
    BY <2>2, <2>3, <2>5 DEF ListScreen
  <2>7. GetMenu(x) = GetMenu(m)
    BY <2>1, <2>2, <2>6 DEF GetMenu, GetUpgradesPage
  <2>8. IsList(x) <=> IsList(m)
    BY <2>1, <2>2 DEF IsList
  <2> QED BY <2>1, <2>2, <2>3, <2>7, <2>8 DEF x
<1> QED BY <1>1, <1>2

\* A client's menu and what is drawn for it become x and drawn.
BecomesMenu(c, x, drawn) ==
  /\ x \in Node /\ Kept(x, drawn) /\ DOMAIN drawn \subseteq Numbers
  /\ x.open => client[c].online
  /\ menu' = [menu EXCEPT ![c] = x] /\ shown' = [shown EXCEPT ![c] = drawn]
  /\ broken' = broken

\* What may become of it.
Redrawn(c) ==
  \/ broken' = TRUE /\ UNCHANGED <<menu, shown>>
  \/ \E x, drawn : BecomesMenu(c, x, drawn)

\* A menu that may be drawn, or break off.
Drawable(m) ==
  /\ m \in Node /\ m.open /\ Len(m.lines) <= 2 * PageSize
  /\ m.submenu = "none" => m.lines = <<>> /\ m.ia = 0 /\ m.page = 0
  /\ m.submenu = "settings" /\ m.ia # 1 => m.lines = <<>> /\ m.page = 0

LEMMA NodeIsDraft == Node \subseteq Draft
BY NumbersFacts DEF Node, Draft, NodeOfPage

LEMMA CreateMenuKept ==
  ASSUME Typed, NEW c \in Clients, client[c].online, NEW m, Drawable(m), CreateMenu(c, m)
  PROVE  Redrawn(c)
<1> DEFINE listed == Listed(c, m)
           x == AtTheEnd(listed)
<1>1. m \in Node /\ m \in Draft /\ Len(m.lines) <= 2 * PageSize
  BY NodeIsDraft DEF Drawable
<1>2. /\ listed \in Draft /\ Len(listed.lines) <= 2 * PageSize
      /\ listed.open = m.open /\ listed.submenu = m.submenu
      /\ listed.page = m.page /\ listed.ia = m.ia
      /\ ~IsList(m) \/ m.lines # <<>> => listed = m
  BY <1>1, ListedDraft
<1>3. /\ x \in Draft /\ GetMenu(x) = GetMenu(listed) /\ OnPage(x) = OnPage(listed)
      /\ x.open = listed.open /\ x.submenu = listed.submenu /\ x.page = listed.page
      /\ x.lines = listed.lines /\ (listed.submenu # "upgrades" => x = listed)
      /\ (IsList(x) <=> IsList(listed))
  BY <1>2, EndKept
<1>4. CASE Undrawable(c, listed)
  <2>1. broken' = TRUE /\ UNCHANGED <<menu, shown>>
    BY <1>4 DEF CreateMenu
  <2> QED BY <2>1 DEF Redrawn
<1>5. CASE ~Undrawable(c, listed)
  <2>1. menu' = [menu EXCEPT ![c] = x] /\ broken' = broken
        /\ \E drawn \in GetMenu(listed) : shown' = [shown EXCEPT ![c] = drawn]
    BY <1>5 DEF CreateMenu
  <2>2. PICK drawn \in GetMenu(listed) : shown' = [shown EXCEPT ![c] = drawn]
    BY <2>1
  <2>3. ~(IsList(listed) /\ listed.lines # <<>> /\ OnPage(listed) = {})
    BY <1>5 DEF Undrawable
  <2> HIDE DEF listed, x
  <2>4. x \in Node
    <3>1. x.page \in 0..MaxPage
      BY <1>1, <1>2, <1>3 DEF Node, NodeOfPage
    <3> QED BY <1>3, <3>1 DEF Draft, Node, NodeOfPage
  <2>5. DOMAIN drawn \subseteq Numbers
    BY <1>2, DrawnNumbers
  <2>6. Kept(x, drawn)
    <3>1. x.open /\ drawn \in GetMenu(x)
      BY <1>2, <1>3 DEF Drawable
    <3>2. Len(x.lines) <= 2 * PageSize
      BY <1>2, <1>3
    <3>3. IsList(x) /\ x.lines # <<>> => OnPage(x) # {}
      BY <1>3, <2>3
    <3>4. x.submenu = "none" => x.lines = <<>> /\ x.ia = 0 /\ x.page = 0
      BY <1>2, <1>3 DEF Drawable, IsList
    <3>5. x.submenu = "settings" /\ x.ia # 1 => x.lines = <<>> /\ x.page = 0
      BY <1>2, <1>3 DEF Drawable, IsList
    <3> QED BY <3>1, <3>2, <3>3, <3>4, <3>5 DEF Kept
  <2>7. BecomesMenu(c, x, drawn)
    BY <2>1, <2>2, <2>4, <2>5, <2>6 DEF BecomesMenu
  <2> QED BY <2>7 DEF Redrawn
<1> QED BY <1>4, <1>5

LEMMA NoMenuKept == NoMenu \in Node /\ Kept(NoMenu, Blank) /\ ~NoMenu.open /\ NoMenu.page = 0
<1>1. NoMenu \in Node /\ NoMenu.lines = <<>> /\ ~NoMenu.open /\ NoMenu.page = 0 /\ NoMenu.ia = 0
      /\ NoMenu.submenu = "none"
  BY NumbersFacts DEF NoMenu, Node, NodeOfPage, Submenus
<1>2. ~IsList(NoMenu)
  BY <1>1 DEF IsList
<1>3. Len(NoMenu.lines) <= 2 * PageSize
  BY <1>1, NumbersFacts
<1> QED BY <1>1, <1>2, <1>3 DEF Kept

LEMMA DelMenuKept ==
  ASSUME NEW c \in Clients, DelMenu(c)
  PROVE  Redrawn(c)
<1>1. DOMAIN Blank \subseteq Numbers
  BY DEF Blank
<1>2. BecomesMenu(c, NoMenu, Blank)
  BY <1>1, NoMenuKept DEF DelMenu, BecomesMenu
<1> QED BY <1>2, NoMenuKept DEF Redrawn

-----------------------------------------------------------------------------
(* Selecting.                                                              *)

\* A player that stays online.
BecomesPlayer(c) ==
  \E p \in Player : client' = [client EXCEPT ![c] = p] /\ p.online = client[c].online

LEMMA SamePlayer ==
  ASSUME Typed, NEW c \in Clients, UNCHANGED client
  PROVE  BecomesPlayer(c)
<1>1. client[c] \in Player /\ client' = [client EXCEPT ![c] = client[c]]
  BY DEF Typed
<1> QED BY <1>1 DEF BecomesPlayer

\* A level, the levels or the language change.
LEMMA OtherLevels ==
  ASSUME Typed, NEW c \in Clients, NEW levels \in [Items -> 0..MaxLevel],
         client' = [client EXCEPT ![c].level = levels]
  PROVE  BecomesPlayer(c)
<1> DEFINE p == [client[c] EXCEPT !.level = levels]
<1>1. client[c] \in Player
  BY DEF Typed
<1>2. p \in Player /\ p.online = client[c].online
  BY <1>1 DEF Player
<1>3. client' = [client EXCEPT ![c] = p]
  OBVIOUS
<1> HIDE DEF p
<1> QED BY <1>2, <1>3 DEF BecomesPlayer

LEMMA OtherLanguage ==
  ASSUME Typed, NEW c \in Clients, NEW name \in Names \cup {Default},
         client' = [client EXCEPT ![c].lang = name, ![c].lang_is_set = TRUE]
  PROVE  BecomesPlayer(c)
<1> DEFINE p == [client[c] EXCEPT !.lang = name, !.lang_is_set = TRUE]
<1>1. client[c] \in Player
  BY DEF Typed
<1>2. p \in Player /\ p.online = client[c].online
  BY <1>1 DEF Player
<1>3. client' = [client EXCEPT ![c] = p]
  BY DEF Typed
<1> HIDE DEF p
<1> QED BY <1>2, <1>3 DEF BecomesPlayer

LEMMA OpenMenu ==
  ASSUME MenuInv, NEW c \in Clients, menu[c].open
  PROVE  Drawable(menu[c]) /\ client[c].online
BY DEF MenuInv, Typed, Kept, Drawable

\* A list that is turned over is drawn or breaks off.
LEMMA TurnPageKept ==
  ASSUME MenuInv, NEW c \in Clients, menu[c].open, IsList(menu[c]),
         NEW n \in {Previous, Forth}, TurnPage(c, menu[c], n)
  PROVE  Redrawn(c)
<1> DEFINE m == menu[c]
           draft == IF n = Previous
                    THEN [m EXCEPT !.page = IF @ > 0 THEN @ - 1 ELSE @,
                                   !.ia = IF m.submenu = "upgrades" THEN 0 ELSE @]
                    ELSE [m EXCEPT !.page = IF m.submenu = "upgrades" /\ m.ia = 1 THEN @ ELSE @ + 1]
<1>1. Drawable(m) /\ client[c].online /\ Typed /\ IsList(m)
  BY OpenMenu DEF MenuInv
<1>2. m \in Node /\ m.page \in 0..MaxPage /\ m.ia \in 0..TooLarge
  BY <1>1 DEF Node, NodeOfPage, Drawable
<1>3. CreateMenu(c, draft) /\ (n = Forth => m.page < MaxPage)
  BY DEF TurnPage
<1> HIDE DEF m
<1>4. /\ draft.open = m.open /\ draft.submenu = m.submenu /\ draft.lines = m.lines
      /\ draft.page \in 0..MaxPage /\ draft.ia \in 0..TooLarge
      /\ (m.submenu # "upgrades" => draft.ia = m.ia)
  BY <1>2, <1>3, NumbersFacts DEF Node, NodeOfPage
<1>5. draft \in Node
  <2>1. n = Previous => draft = [m EXCEPT !.page = draft.page, !.ia = draft.ia]
    BY <1>2 DEF Node, NodeOfPage
  <2>2. n # Previous => draft = [m EXCEPT !.page = draft.page]
    BY <1>2 DEF Node, NodeOfPage
  <2> HIDE DEF draft
  <2> QED BY <1>2, <1>4, <2>1, <2>2 DEF Node, NodeOfPage
<1> HIDE DEF draft
<1>6. Drawable(draft)
  BY <1>1, <1>4, <1>5 DEF Drawable, IsList
<1> QED BY <1>1, <1>3, <1>6, CreateMenuKept

LEMMA UpgradesSelectKept ==
  ASSUME MenuInv, NEW c \in Clients, menu[c].open, menu[c].submenu = "upgrades",
         NEW n \in Arguments, UpgradesSelect(c, menu[c], n)
  PROVE  Redrawn(c) /\ BecomesPlayer(c)
<1> DEFINE m == menu[c]
<1>1. Typed /\ client[c] \in Player /\ IsList(m)
  BY DEF MenuInv, Typed, IsList
<1>2. CASE n \in {Previous, Forth} /\ TurnPage(c, m, n) /\ UNCHANGED client
  BY <1>1, <1>2, TurnPageKept, SamePlayer
<1>3. CASE Buys(c, m, n)
  <2>1. Redrawn(c)
    BY <1>3, DelMenuKept DEF Buys
  <2>2. CASE UNCHANGED client
    BY <1>1, <2>1, <2>2, SamePlayer
  <2>3. CASE ~UNCHANGED client
    <3>1. PICK k \in Found(m, n) :
            /\ client[c].level[m.lines[k].what] < MaxLevel
            /\ client' = [client EXCEPT ![c].level[m.lines[k].what] = @ + 1]
      BY <1>3, <2>3 DEF Buys
    <3> DEFINE i == m.lines[k].what
               levels == [client[c].level EXCEPT ![i] = @ + 1]
    <3>2. client[c].level \in [Items -> 0..MaxLevel] /\ MaxLevel \in Nat
      BY <1>1, MenuConstants DEF Player
    <3>3. i \in Items => client[c].level[i] + 1 \in 0..MaxLevel
      BY <3>1, <3>2
    <3>4. levels \in [Items -> 0..MaxLevel]
      <4> HIDE DEF i
      <4> QED BY <3>2, <3>3
    <3>5. client' = [client EXCEPT ![c].level = levels]
      BY <3>1
    <3> HIDE DEF levels
    <3> QED BY <1>1, <2>1, <3>4, <3>5, OtherLevels
  <2> QED BY <2>1, <2>2, <2>3
<1> QED BY <1>2, <1>3 DEF UpgradesSelect

LEMMA SellSelectKept ==
  ASSUME MenuInv, NEW c \in Clients, menu[c].open, menu[c].submenu = "sell",
         NEW n \in Arguments, n # Exit, SellSelect(c, menu[c], n)
  PROVE  Redrawn(c) /\ BecomesPlayer(c)
<1> DEFINE m == menu[c]
<1>1. Typed /\ client[c] \in Player /\ Drawable(m) /\ client[c].online
  BY OpenMenu DEF MenuInv, Typed
<1>2. CASE m.ia = 0 /\ n \in {Previous, Forth} /\ TurnPage(c, m, n) /\ UNCHANGED client
  <2>1. IsList(m)
    BY <1>2 DEF IsList
  <2> QED BY <1>1, <1>2, <2>1, TurnPageKept, SamePlayer
<1>3. CASE m.ia = 0 /\ CreateMenu(c, [m EXCEPT !.ia = n]) /\ UNCHANGED client
  <2> DEFINE draft == [m EXCEPT !.ia = n]
  <2>1. draft.open = m.open /\ draft.submenu = "sell" /\ draft.page = m.page
        /\ draft.lines = m.lines /\ draft \in Node
    <3>1. m \in Node /\ n \in 0..TooLarge /\ m.submenu = "sell"
      BY <1>1, NumbersFacts DEF Drawable
    <3> HIDE DEF m
    <3> QED BY <3>1 DEF Node, NodeOfPage
  <2> HIDE DEF draft
  <2>2. Drawable(draft)
    BY <1>1, <2>1 DEF Drawable
  <2>3. CreateMenu(c, draft)
    BY <1>3 DEF draft
  <2> QED BY <1>1, <1>3, <2>2, <2>3, CreateMenuKept, SamePlayer
<1>4. CASE m.ia # 0 /\ DelMenu(c) /\ UNCHANGED client
  BY <1>1, <1>4, DelMenuKept, SamePlayer
<1>5. CASE /\ \/ UNCHANGED client
              \/ /\ client[c].level[Pending(m)] > 0
                 /\ client' = [client EXCEPT ![c].level[Pending(m)] = @ - 1]
           /\ DelMenu(c)
  <2>1. Redrawn(c)
    BY <1>5, DelMenuKept
  <2>2. CASE UNCHANGED client
    BY <1>1, <2>1, <2>2, SamePlayer
  <2>3. CASE /\ client[c].level[Pending(m)] > 0
             /\ client' = [client EXCEPT ![c].level[Pending(m)] = @ - 1]
    <3> DEFINE i == Pending(m)
               levels == [client[c].level EXCEPT ![i] = @ - 1]
    <3>1. client[c].level \in [Items -> 0..MaxLevel] /\ MaxLevel \in Nat
      BY <1>1, MenuConstants DEF Player
    <3>2. levels \in [Items -> 0..MaxLevel]
      <4> HIDE DEF i
      <4>1. i \in Items => client[c].level[i] - 1 \in 0..MaxLevel
        BY <2>3, <3>1 DEF i
      <4> QED BY <3>1, <4>1
    <3>3. client' = [client EXCEPT ![c].level = levels]
      BY <2>3
    <3> HIDE DEF levels
    <3> QED BY <1>1, <2>1, <3>2, <3>3, OtherLevels
  <2> QED BY <1>5, <2>1, <2>2, <2>3
<1> QED BY <1>2, <1>3, <1>4, <1>5 DEF SellSelect

LEMMA CountedNames ==
  ASSUME Typed, NEW k
  PROVE  Counted(k) \subseteq Names \cup {Default}
<1>1. langs \in Seq(Names \cup {Default})
  BY ListNames DEF Typed
<1> QED BY <1>1 DEF Counted

LEMMA SettingsSelectKept ==
  ASSUME MenuInv, NEW c \in Clients, menu[c].open, menu[c].submenu = "settings",
         NEW n \in Arguments, n # Exit, SettingsSelect(c, menu[c], n)
  PROVE  Redrawn(c) /\ BecomesPlayer(c)
<1> DEFINE m == menu[c]
<1>1. Typed /\ client[c] \in Player /\ Drawable(m) /\ client[c].online
  BY OpenMenu DEF MenuInv, Typed
<1>2. CASE m.ia = 0 /\ CreateMenu(c, [m EXCEPT !.ia = n]) /\ UNCHANGED client
  <2> DEFINE draft == [m EXCEPT !.ia = n]
  <2>1. draft.open = m.open /\ draft.submenu = "settings" /\ draft.page = m.page
        /\ draft.lines = m.lines /\ draft \in Node
    <3>1. m \in Node /\ n \in 0..TooLarge /\ m.submenu = "settings"
      BY <1>1, NumbersFacts DEF Drawable
    <3> HIDE DEF m
    <3> QED BY <3>1 DEF Node, NodeOfPage
  <2>2. m.page = 0 /\ m.lines = <<>>
    BY <1>1, <1>2 DEF Drawable
  <2> HIDE DEF draft
  <2>3. Drawable(draft)
    BY <1>1, <2>1, <2>2 DEF Drawable
  <2>4. CreateMenu(c, draft)
    BY <1>2 DEF draft
  <2> QED BY <1>1, <1>2, <2>3, <2>4, CreateMenuKept, SamePlayer
<1>3. CASE m.ia = 1 /\ n \in {Previous, Forth} /\ TurnPage(c, m, n) /\ UNCHANGED client
  <2>1. IsList(m)
    BY <1>3 DEF IsList
  <2> QED BY <1>1, <1>3, <2>1, TurnPageKept, SamePlayer
<1>4. CASE LanguageSelect(c, m, n)
  <2>1. CASE Found(m, n) = {}
    <3>1. broken' = TRUE /\ UNCHANGED <<menu, shown>> /\ UNCHANGED client
      BY <1>4, <2>1 DEF LanguageSelect
    <3> QED BY <1>1, <3>1, SamePlayer DEF Redrawn
  <2>2. CASE Found(m, n) # {}
    <3>1. DelMenu(c)
          /\ \E k \in Found(m, n) :
               IF Counted(k) = {} THEN UNCHANGED client
               ELSE \E name \in Counted(k) :
                      client' = [client EXCEPT ![c].lang = name, ![c].lang_is_set = TRUE]
      BY <1>4, <2>2 DEF LanguageSelect
    <3>2. PICK k : IF Counted(k) = {} THEN UNCHANGED client
                   ELSE \E name \in Counted(k) :
                          client' = [client EXCEPT ![c].lang = name, ![c].lang_is_set = TRUE]
      BY <3>1
    <3>3. \A name \in Counted(k) : name \in Names \cup {Default}
      BY <1>1, CountedNames
    <3>4. BecomesPlayer(c)
      BY <1>1, <3>2, <3>3, SamePlayer, OtherLanguage
    <3> QED BY <3>1, <3>4, DelMenuKept
  <2> QED BY <2>1, <2>2
<1>5. CASE DelMenu(c) /\ client' = [client EXCEPT ![c].level = [i \in Items |-> 0]]
  <2>1. [i \in Items |-> 0] \in [Items -> 0..MaxLevel]
    BY MenuConstants
  <2>2. BecomesPlayer(c)
    <3> DEFINE levels == [i \in Items |-> 0]
    <3>1. levels \in [Items -> 0..MaxLevel] /\ client' = [client EXCEPT ![c].level = levels]
      BY <1>5, <2>1
    <3> HIDE DEF levels
    <3> QED BY <1>1, <3>1, OtherLevels
  <2> QED BY <1>5, <2>2, DelMenuKept
<1>6. CASE DelMenu(c) /\ UNCHANGED client
  BY <1>1, <1>6, DelMenuKept, SamePlayer
<1> QED BY <1>2, <1>3, <1>4, <1>5, <1>6 DEF SettingsSelect

LEMMA MainSelectKept ==
  ASSUME MenuInv, NEW c \in Clients, menu[c].open, menu[c].submenu = "none",
         NEW n \in Arguments, MainSelect(c, menu[c], n)
  PROVE  Redrawn(c)
<1> DEFINE m == menu[c]
           draft == [m EXCEPT !.submenu = ChosenSubmenu(n), !.page = 0]
<1>1. Typed /\ Drawable(m) /\ client[c].online
  BY OpenMenu DEF MenuInv, Typed
<1>2. CASE n <= 5 /\ CreateMenu(c, draft)
  <2>1. n \in 1..5
    BY <1>1, <1>2, NumbersFacts
  <2>2. ChosenSubmenu(n) \in {"upgrades", "sell", "stats", "settings", "help"}
    BY <2>1 DEF ChosenSubmenu
  <2>3. m.lines = <<>> /\ m.ia = 0 /\ m \in Node
    BY <1>1 DEF Drawable
  <2>4. draft \in Node /\ draft.lines = <<>> /\ draft.page = 0 /\ draft.open
        /\ draft.submenu # "none" /\ draft.ia = 0
    BY <1>1, <2>2, <2>3 DEF Node, NodeOfPage, Submenus, Drawable
  <2> HIDE DEF draft
  <2>5. Drawable(draft)
    BY <2>4, NumbersFacts DEF Drawable
  <2> QED BY <1>1, <1>2, <2>5, CreateMenuKept
<1>3. CASE DelMenu(c)
  BY <1>3, DelMenuKept
<1> QED BY <1>2, <1>3 DEF MainSelect

LEMMA SelectOptionKept ==
  ASSUME MenuInv, NEW c \in Clients, menu[c].open, NEW n \in Arguments,
         SelectOption(c, menu[c], n)
  PROVE  Redrawn(c) /\ BecomesPlayer(c)
<1> DEFINE m == menu[c]
<1>1. Typed
  BY DEF MenuInv
<1>2. CASE DelMenu(c) /\ UNCHANGED client
  BY <1>1, <1>2, DelMenuKept, SamePlayer
<1>3. CASE m.submenu = "none" /\ MainSelect(c, m, n) /\ UNCHANGED client
  BY <1>1, <1>3, MainSelectKept, SamePlayer
<1>4. CASE m.submenu = "upgrades" /\ UpgradesSelect(c, m, n)
  BY <1>4, UpgradesSelectKept
<1>5. CASE n # Exit /\ m.submenu = "sell" /\ SellSelect(c, m, n)
  BY <1>5, SellSelectKept
<1>6. CASE n # Exit /\ m.submenu = "settings" /\ SettingsSelect(c, m, n)
  BY <1>6, SettingsSelectKept
<1> QED BY <1>2, <1>3, <1>4, <1>5, <1>6 DEF SelectOption, HelpSelect

-----------------------------------------------------------------------------
(* Steps.                                                                  *)

\* One client's menu is drawn, deleted or as it was, its player changes, and its
\* screen closes or stays.
LEMMA RedrawnInv ==
  ASSUME MenuInv, NEW c \in Clients, Redrawn(c), BecomesPlayer(c),
         enable' = enable, enabled' = enabled, langs' = langs,
         screen' \in {screen, [screen EXCEPT ![c] = Blank]}
  PROVE  MenuInv'
<1> DEFINE drawn(x, d) == /\ x \in Node /\ Kept(x, d) /\ DOMAIN d \subseteq Numbers
                          /\ x.open => client[c].online
                          /\ menu' = [menu EXCEPT ![c] = x] /\ shown' = [shown EXCEPT ![c] = d]
<1>1. Typed
  BY DEF MenuInv
<1>2. PICK q \in Player : client' = [client EXCEPT ![c] = q] /\ q.online = client[c].online
  BY DEF BecomesPlayer
<1>3. PICK x, d : drawn(x, d) /\ broken' \in BOOLEAN
  <2>1. CASE broken' = TRUE /\ UNCHANGED <<menu, shown>>
    <3>1. menu' = [menu EXCEPT ![c] = menu[c]] /\ shown' = [shown EXCEPT ![c] = shown[c]]
      BY <1>1, <2>1 DEF Typed
    <3>2. menu[c] \in Node /\ Kept(menu[c], shown[c]) /\ DOMAIN shown[c] \subseteq Numbers
          /\ (menu[c].open => client[c].online)
      BY DEF MenuInv, Typed
    <3>3. drawn(menu[c], shown[c])
      BY <3>1, <3>2
    <3> QED BY <2>1, <3>3
  <2>2. CASE \E x, d : BecomesMenu(c, x, d)
    <3>1. PICK x, d : BecomesMenu(c, x, d)
      BY <2>2
    <3> QED BY <1>1, <3>1 DEF BecomesMenu, Typed
  <2> QED BY <2>1, <2>2 DEF Redrawn
<1>4. client'[c] = q /\ menu'[c] = x /\ shown'[c] = d
  BY <1>1, <1>2, <1>3 DEF Typed
<1>5. \A e \in Clients : e # c => client'[e] = client[e] /\ menu'[e] = menu[e] /\ shown'[e] = shown[e]
  BY <1>1, <1>2, <1>3 DEF Typed
<1>6. DOMAIN screen'[c] = {} \/ screen' = screen
  BY <1>1 DEF Typed, Blank
<1>7. \A e \in Clients : e # c => screen'[e] = screen[e]
  BY <1>1 DEF Typed
<1>8. client' \in [Clients -> Player] /\ menu' \in [Clients -> Node]
      /\ shown' = [e \in Clients |-> shown'[e]] /\ screen' = [e \in Clients |-> screen'[e]]
  BY <1>1, <1>2, <1>3 DEF Typed
<1>9. \A e \in Clients : DOMAIN shown'[e] \subseteq Numbers /\ DOMAIN screen'[e] \subseteq Numbers
  BY <1>1, <1>3, <1>4, <1>5, <1>6, <1>7 DEF Typed
<1>10. Typed'
  BY <1>1, <1>3, <1>8, <1>9 DEF Typed
<1>11. ASSUME NEW e \in Clients
       PROVE  (menu'[e].open => client'[e].online) /\ Kept(menu'[e], shown'[e])
  <2>1. CASE e = c
    BY <1>2, <1>3, <1>4, <2>1
  <2>2. CASE e # c
    BY <1>5, <2>2 DEF MenuInv
  <2> QED BY <2>1, <2>2
<1> QED BY <1>10, <1>11 DEF MenuInv

LEMMA InitInv == Init => MenuInv
<1> SUFFICES ASSUME Init PROVE MenuInv
  OBVIOUS
<1>1. Nobody \in Player
  BY MenuConstants DEF Nobody, Player
<1>2. DOMAIN Blank = {}
  BY DEF Blank
<1>3. Typed
  BY <1>1, <1>2, NoMenuKept DEF Init, Typed
<1>4. \A c \in Clients : menu[c] = NoMenu /\ shown[c] = Blank
  BY DEF Init
<1> QED BY <1>3, <1>4, NoMenuKept DEF MenuInv

LEMMA PressInv ==
  ASSUME MenuInv, NEW c \in Clients, NEW n \in Arguments, Press(c, n)
  PROVE  MenuInv'
<1>1. screen' = [screen EXCEPT ![c] = Blank] /\ Typed
      /\ enable' = enable /\ enabled' = enabled /\ langs' = langs
  BY DEF Press, MenuInv
<1>2. CASE enable /\ menu[c].open
  <2>1. SelectOption(c, menu[c], n)
    BY <1>2 DEF Press
  <2>2. Redrawn(c) /\ BecomesPlayer(c)
    BY <1>1, <1>2, <2>1, SelectOptionKept
  <2> QED BY <1>1, <2>2, RedrawnInv
<1>3. CASE ~(enable /\ menu[c].open)
  <2>1. client' = client /\ menu' = menu /\ shown' = shown /\ broken' = broken
    BY <1>3 DEF Press
  <2>2. BecomesPlayer(c)
    BY <1>1, <2>1, SamePlayer
  <2>3. BecomesMenu(c, menu[c], shown[c])
    BY <2>1 DEF BecomesMenu, MenuInv, Typed
  <2>4. Redrawn(c)
    BY <2>3 DEF Redrawn
  <2> QED BY <1>1, <2>2, <2>4, RedrawnInv
<1> QED BY <1>2, <1>3

LEMMA CommandInv ==
  ASSUME MenuInv, NEW c \in Clients, NEW submenu \in Submenus,
         ClientCommand(c, submenu) \/ PlayerSay(c, submenu)
  PROVE  MenuInv'
<1>1. /\ Online(c) /\ submenu # "settings" /\ CreateMenu(c, AddMenu(submenu)) /\ client' = client
      /\ screen' = screen /\ enable' = enable /\ enabled' = enabled /\ langs' = langs /\ Typed
  BY DEF ClientCommand, PlayerSay, MenuInv
<1> DEFINE m == AddMenu(submenu)
<1>2. m \in Node /\ m.open /\ m.lines = <<>> /\ m.page = 0 /\ m.submenu # "settings" /\ m.ia = 0
  <2>1. NoMenu \in Node /\ NoMenu.lines = <<>> /\ NoMenu.page = 0 /\ NoMenu.ia = 0
    BY NoMenuKept, NumbersFacts DEF NoMenu
  <2>2. m = [NoMenu EXCEPT !.open = TRUE, !.submenu = submenu]
    BY DEF AddMenu
  <2> QED BY <1>1, <2>1, <2>2 DEF Node, NodeOfPage
<1> HIDE DEF m
<1>3. Drawable(m)
  BY <1>2, NumbersFacts DEF Drawable
<1>4. Redrawn(c)
  BY <1>1, <1>2, <1>3, CreateMenuKept DEF Online, m
<1>5. BecomesPlayer(c)
  BY <1>1, SamePlayer
<1> QED BY <1>1, <1>4, <1>5, RedrawnInv

LEMMA ReceiveInv ==
  ASSUME MenuInv, NEW c \in Clients, Receive(c)
  PROVE  MenuInv'
<1>1. /\ menu[c].open /\ screen' = [screen EXCEPT ![c] = shown[c]] /\ Typed
      /\ enable' = enable /\ enabled' = enabled /\ langs' = langs /\ client' = client
      /\ menu' = menu /\ shown' = shown /\ broken' = broken
  BY DEF Receive, MenuInv
<1>2. Typed'
  BY <1>1 DEF Typed
<1> QED BY <1>1, <1>2 DEF MenuInv

\* A player whose menu is as it was, open only if the player is there.
LEMMA PlayerInv ==
  ASSUME MenuInv, NEW c \in Clients, NEW p \in Player, client' = [client EXCEPT ![c] = p],
         menu[c].open => p.online, enable' = enable, enabled' = enabled, langs' = langs,
         menu' = menu, shown' = shown, screen' = screen, broken' = broken
  PROVE  MenuInv'
<1>1. Typed'
  BY DEF MenuInv, Typed
<1>2. \A e \in Clients : menu'[e].open => client'[e].online
  BY DEF MenuInv, Typed
<1> QED BY <1>1, <1>2 DEF MenuInv

LEMMA ConnectInv ==
  ASSUME MenuInv, NEW c \in Clients, Connect(c)
  PROVE  MenuInv'
<1>1. PICK lv \in [Items -> 0..MaxLevel], name \in Names, set \in BOOLEAN :
       client' = [client EXCEPT ![c] =
                    [online |-> TRUE, level |-> lv, lang |-> FiletoTextDB(name),
                     lang_is_set |-> set /\ FiletoTextDB(name) # Default]]
  BY DEF Connect
<1> DEFINE p == [online |-> TRUE, level |-> lv, lang |-> FiletoTextDB(name),
                 lang_is_set |-> set /\ FiletoTextDB(name) # Default]
<1>2. FiletoTextDB(name) \in Names \cup {Default}
  BY DEF FiletoTextDB
<1>3. p \in Player /\ p.online
  BY <1>2 DEF Player
<1>4. client' = [client EXCEPT ![c] = p]
  BY <1>1
<1> HIDE DEF p
<1> QED BY <1>3, <1>4, PlayerInv DEF Connect

LEMMA SetUpgradeLevelInv ==
  ASSUME MenuInv, NEW c \in Clients, NEW i \in Items, NEW n \in 0..MaxLevel,
         SetUpgradeLevel(c, i, n)
  PROVE  MenuInv'
<1> DEFINE levels == [client[c].level EXCEPT ![i] = n]
<1>1. client[c].level \in [Items -> 0..MaxLevel] /\ Typed
  BY DEF MenuInv, Typed, Player
<1>2. levels \in [Items -> 0..MaxLevel]
  BY <1>1
<1>3. client' = [client EXCEPT ![c].level = levels]
  BY DEF SetUpgradeLevel
<1> HIDE DEF levels
<1>4. BecomesPlayer(c)
  BY <1>1, <1>2, <1>3, OtherLevels
<1>5. PICK p \in Player : client' = [client EXCEPT ![c] = p] /\ p.online = client[c].online
  BY <1>4 DEF BecomesPlayer
<1>6. menu[c].open => p.online
  BY <1>5 DEF MenuInv
<1> QED BY <1>5, <1>6, PlayerInv DEF SetUpgradeLevel

LEMMA DisconnectInv ==
  ASSUME MenuInv, NEW c \in Clients, Disconnect(c)
  PROVE  MenuInv'
<1>1. /\ client' = [client EXCEPT ![c] = Nobody] /\ screen' = [screen EXCEPT ![c] = Blank]
      /\ menu' = [menu EXCEPT ![c] = NoMenu] /\ shown' = [shown EXCEPT ![c] = Blank]
      /\ broken' = broken /\ enable' = enable /\ enabled' = enabled /\ langs' = langs /\ Typed
  BY DEF Disconnect, DelMenu, MenuInv
<1>2. Nobody \in Player /\ DOMAIN Blank = {}
  BY MenuConstants DEF Nobody, Player, Blank
<1>3. client'[c] = Nobody /\ menu'[c] = NoMenu /\ shown'[c] = Blank /\ screen'[c] = Blank
  BY <1>1 DEF Typed
<1>4. \A e \in Clients : e # c => /\ client'[e] = client[e] /\ menu'[e] = menu[e]
                                  /\ shown'[e] = shown[e] /\ screen'[e] = screen[e]
  BY <1>1 DEF Typed
<1>5. client' \in [Clients -> Player] /\ menu' \in [Clients -> Node]
      /\ shown' = [e \in Clients |-> shown'[e]] /\ screen' = [e \in Clients |-> screen'[e]]
  BY <1>1, <1>2, NoMenuKept DEF Typed
<1>6. \A e \in Clients : DOMAIN shown'[e] \subseteq Numbers /\ DOMAIN screen'[e] \subseteq Numbers
  BY <1>1, <1>2, <1>3, <1>4 DEF Typed
<1>7. Typed'
  BY <1>1, <1>5, <1>6 DEF Typed
<1>8. ASSUME NEW e \in Clients
      PROVE  (menu'[e].open => client'[e].online) /\ Kept(menu'[e], shown'[e])
  <2>1. CASE e = c
    BY <1>2, <1>3, <2>1, NoMenuKept
  <2>2. CASE e # c
    BY <1>4, <2>2 DEF MenuInv
  <2> QED BY <2>1, <2>2
<1> QED BY <1>7, <1>8 DEF MenuInv

LEMMA ReloadLanguagesInv ==
  ASSUME MenuInv, NEW list \in Lists, ReloadLanguages(list)
  PROVE  MenuInv'
<1>1. /\ langs' \in Lists /\ enable' = enable /\ enabled' = enabled /\ menu' = menu
      /\ shown' = shown /\ screen' = screen /\ broken' = broken /\ Typed
      /\ client' = [c \in Clients |-> IF Online(c) THEN [client[c] EXCEPT !.lang = Freed]
                                                   ELSE client[c]]
  BY DEF ReloadLanguages, MenuInv
<1>2. \A c \in Clients : client'[c] \in Player /\ client'[c].online = client[c].online
  <2> SUFFICES ASSUME NEW c \in Clients
               PROVE  client'[c] \in Player /\ client'[c].online = client[c].online
    OBVIOUS
  <2>1. client[c] \in Player
    BY <1>1 DEF Typed
  <2>2. [client[c] EXCEPT !.lang = Freed] \in Player
        /\ [client[c] EXCEPT !.lang = Freed].online = client[c].online
    BY <2>1 DEF Player
  <2> QED BY <1>1, <2>1, <2>2
<1>3. client' \in [Clients -> Player]
  BY <1>1, <1>2
<1>4. Typed'
  BY <1>1, <1>3 DEF Typed
<1> QED BY <1>1, <1>2, <1>4 DEF MenuInv

LEMMA LevelChangeInv ==
  ASSUME MenuInv, NEW list \in Lists, LevelChange(list)
  PROVE  MenuInv'
<1>1. /\ langs' \in Lists /\ enable' = enable /\ enabled' = enabled /\ broken' = broken /\ Typed
      /\ client' = [c \in Clients |-> Nobody] /\ menu' = [c \in Clients |-> NoMenu]
      /\ shown' = [c \in Clients |-> Blank] /\ screen' = [c \in Clients |-> Blank]
  BY DEF LevelChange, MenuInv
<1>2. Nobody \in Player /\ DOMAIN Blank = {}
  BY MenuConstants DEF Nobody, Player, Blank
<1>3. \A c \in Clients : menu'[c] = NoMenu /\ shown'[c] = Blank
  BY <1>1
<1>4. Typed'
  BY <1>1, <1>2, NoMenuKept DEF Typed
<1> QED BY <1>3, <1>4, NoMenuKept DEF MenuInv

LEMMA NextInv == MenuInv /\ [Next]_vars => MenuInv'
<1> SUFFICES ASSUME MenuInv, [Next]_vars PROVE MenuInv'
  OBVIOUS
<1>1. CASE \E c \in Clients : ClientStep(c)
  <2>1. PICK c \in Clients : ClientStep(c)
    BY <1>1
  <2> QED BY <2>1, ConnectInv, DisconnectInv, ReceiveInv, PressInv, CommandInv,
             SetUpgradeLevelInv DEF ClientStep
<1>2. CASE \E list \in Lists : ReloadLanguages(list) \/ LevelChange(list)
  BY <1>2, ReloadLanguagesInv, LevelChangeInv
<1>3. CASE (\E i \in Items : SetItemEnable(i)) \/ SetEnable \/ Announce \/ UNCHANGED vars
  <2>1. /\ client' = client /\ menu' = menu /\ shown' = shown /\ screen' = screen /\ langs' = langs
        /\ enable' \in BOOLEAN /\ enabled' \in SUBSET Items /\ broken' \in BOOLEAN
    BY <1>3 DEF SetItemEnable, SetEnable, Announce, vars, MenuInv, Typed
  <2> QED BY <2>1 DEF MenuInv, Typed
<1> QED BY <1>1, <1>2, <1>3 DEF Next

LEMMA MenuInvariant == Spec => []MenuInv
BY InitInv, NextInv, PTL DEF Spec

\* The types of all that Menu keeps, whoever presses what and however often the
\* languages are loaded again; no menu is open for a client without a player.
THEOREM MenuTypes == Spec => []TypeOK
<1>1. MenuInv => TypeOK
  BY DEF MenuInv, Typed, TypeOK, Player, Node, NodeOfPage
<1> QED BY <1>1, MenuInvariant, PTL

\* However many lines there are, up to two pages of them, each has a page and a number
\* that no other has, and the page before offers the way to it.
THEOREM LinesPlaced == Spec => []EveryLineHasItsPlace
<1>1. ASSUME MenuInv, NEW c \in Clients, NEW k \in 1..Len(menu[c].lines)
      PROVE  /\ PageIndex(k) <= PageSize
             /\ \A j \in 1..Len(menu[c].lines) :
                  j # k => <<Page(j), PageIndex(j)>> # <<Page(k), PageIndex(k)>>
             /\ Page(k) > 0 => LET before == [menu[c] EXCEPT !.page = Page(k) - 1]
                               IN OnPage(before) # {}
                                  /\ HasNext(LastOnPage(before), Len(menu[c].lines))
  <2> DEFINE m == menu[c]
             n == Len(m.lines)
  <2>1. m \in Draft /\ n <= 2 * PageSize
    <3>1. m \in Node /\ Kept(m, shown[c])
      BY <1>1 DEF MenuInv, Typed
    <3> HIDE DEF m
    <3> QED BY <3>1 DEF Kept, Node, Draft, NodeOfPage
  <2>2. n \in Nat /\ PageSize \in Nat /\ PageSize > 0 /\ (n = 0 <=> m.lines = <<>>)
    BY <2>1, Pages, MenuConstants
  <2>3. \A j \in 1..n : j \in 1..(2 * PageSize)
    BY <2>1, <2>2
  <2>4. \A j \in 1..n : /\ Page(j) = IF j <= PageSize THEN 0 ELSE 1
                        /\ PageIndex(j) = IF j <= PageSize THEN j ELSE j - PageSize
    BY <2>3, PageOf, PageIndexOf
  <2> HIDE DEF n
  <2>5. PageIndex(k) <= PageSize
    BY <1>1, <2>1, <2>2, <2>4 DEF n
  <2>6. ASSUME NEW j \in 1..n, Page(j) = Page(k), PageIndex(j) = PageIndex(k) PROVE j = k
    BY <2>2, <2>4, <2>6 DEF n
  <2>7. ASSUME Page(k) > 0
        PROVE  LET before == [m EXCEPT !.page = Page(k) - 1]
               IN OnPage(before) # {} /\ HasNext(LastOnPage(before), n)
    <3> DEFINE before == [m EXCEPT !.page = Page(k) - 1]
    <3>1. Page(k) = 1 /\ k > PageSize /\ n > PageSize
      BY <2>2, <2>4, <2>7 DEF n
    <3>2. before \in Draft /\ before.page = 0 /\ before.lines = m.lines
      BY <2>1, <3>1 DEF Draft, NodeOfPage
    <3> HIDE DEF before
    <3>3. OnPage(before) # {}
      BY <2>1, <2>2, <3>1, <3>2, Pages DEF n
    <3>4. LastOnPage(before) = PageSize
      BY <2>1, <3>1, <3>2, <3>3, LastOf DEF n
    <3>5. HasNext(LastOnPage(before), n)
      BY <2>2, <3>1, <3>4 DEF HasNext
    <3> QED BY <3>3, <3>5 DEF before
  <2> QED BY <2>5, <2>6, <2>7 DEF n
<1>2. MenuInv => EveryLineHasItsPlace
  BY <1>1 DEF EveryLineHasItsPlace
<1> QED BY <1>2, MenuInvariant, PTL

-----------------------------------------------------------------------------
(* What the numbers of a page say.                                         *)

LEMMA OptionsSay ==
  /\ \A ns, n : n \in DOMAIN SetOptions(ns) => SetOptions(ns)[n] = Says("nothing", 0)
  /\ \A does, what : /\ DOMAIN Confirm(does, what) = {1, 2, Exit}
                     /\ \A n \in {1, 2, Exit} :
                          Confirm(does, what)[n] = IF n = 1 THEN Says(does, what)
                                                            ELSE Says("nothing", 0)
  /\ DOMAIN Always = {Exit} /\ Always[Exit] = Says("nothing", 0)
<1>1. \A ns : DOMAIN SetOptions(ns) = ns \cup {Exit}
              /\ \A n \in ns \cup {Exit} : SetOptions(ns)[n] = Says("nothing", 0)
  BY DEF SetOptions
<1>2. ASSUME NEW does, NEW what
      PROVE  /\ DOMAIN Confirm(does, what) = {1, 2, Exit}
             /\ \A n \in {1, 2, Exit} :
                  Confirm(does, what)[n] = IF n = 1 THEN Says(does, what) ELSE Says("nothing", 0)
  <2> DEFINE s == SetOptions({1, 2})
  <2>1. s = [n \in {1, 2, Exit} |-> Says("nothing", 0)]
    BY DEF SetOptions
  <2>2. Confirm(does, what) = [s EXCEPT ![1] = Says(does, what)]
    BY DEF Confirm
  <2> HIDE DEF s
  <2> QED BY <2>1, <2>2
<1>3. DOMAIN Always = {Exit} /\ Always[Exit] = Says("nothing", 0)
  <2>1. DOMAIN SetOptions({}) = {} \cup {Exit} /\ SetOptions({})[Exit] = Says("nothing", 0)
    BY <1>1
  <2> QED BY <2>1 DEF Always
<1>4. \A ns, n : n \in DOMAIN SetOptions(ns) => SetOptions(ns)[n] = Says("nothing", 0)
  BY <1>1
<1>5. \A does, what : /\ DOMAIN Confirm(does, what) = {1, 2, Exit}
                      /\ \A n \in {1, 2, Exit} :
                           Confirm(does, what)[n] = IF n = 1 THEN Says(does, what)
                                                             ELSE Says("nothing", 0)
  BY <1>2
<1> QED BY <1>3, <1>4, <1>5

\* A number of a list stands for one of its lines, or leads to another page or out.
LEMMA ListSays ==
  ASSUME NEW m \in Draft, Len(m.lines) <= 2 * PageSize, NEW does, NEW lines \in SUBSET OnPage(m),
         NEW n \in DOMAIN ListScreen(m, does, lines)
  PROVE  \/ /\ n \notin {Previous, Forth, Exit}
            /\ \E k \in lines : PageIndex(k) = n
                                /\ ListScreen(m, does, lines)[n] = Says(does, m.lines[k].what)
         \/ /\ n \in PreviousNext(m) \cup {Exit}
            /\ ListScreen(m, does, lines)[n] = Says("nothing", 0)
<1> DEFINE at == CHOOSE k \in lines : PageIndex(k) = n
           s == ListScreen(m, does, lines)
<1>1. n \in {PageIndex(k) : k \in lines} \cup PreviousNext(m) \cup {Exit}
      /\ s[n] = IF n <= PageSize THEN Says(does, m.lines[at].what) ELSE Says("nothing", 0)
  BY DEF ListScreen
<1>2. \A k \in lines : PageIndex(k) \in 1..PageSize
  BY FoundOne
<1>3. \A i \in PreviousNext(m) \cup {Exit} : i \in Int /\ i > PageSize
  BY NumbersFacts DEF PreviousNext
<1>4. CASE n \in {PageIndex(k) : k \in lines}
  <2>1. at \in lines /\ PageIndex(at) = n
    BY <1>4
  <2>2. n \in 1..PageSize
    BY <1>2, <2>1
  <2>3. n \notin {Previous, Forth, Exit} /\ n <= PageSize
    BY <2>2, NumbersFacts
  <2> HIDE DEF at, s
  <2> QED BY <1>1, <2>1, <2>3 DEF s
<1>5. CASE n \notin {PageIndex(k) : k \in lines}
  <2>1. n \in PreviousNext(m) \cup {Exit}
    BY <1>1, <1>5
  <2>2. ~(n <= PageSize)
    BY <1>3, <2>1, NumbersFacts
  <2> QED BY <1>1, <2>1, <2>2
<1> QED BY <1>4, <1>5

\* What is drawn of a menu that lists something.
LEMMA ListDrawn ==
  ASSUME NEW m \in Draft, IsList(m), NEW drawn \in GetMenu(m)
  PROVE  /\ m.lines = <<>> => drawn = Always
         /\ m.lines # <<>> => \E does, lines : /\ lines \in SUBSET OnPage(m)
                                               /\ drawn = ListScreen(m, does, lines)
<1>1. CASE m.submenu = "upgrades"
  BY <1>1 DEF GetMenu, GetUpgradesPage
<1>2. CASE m.submenu = "sell" /\ m.ia = 0
  BY <1>2 DEF GetMenu, GetSellPage
<1>3. CASE m.submenu = "settings" /\ m.ia = 1
  <2> DEFINE lines == {k \in OnPage(m) : m.lines[k].enabled}
  <2>1. drawn = IF m.lines = <<>> THEN Always ELSE ListScreen(m, "speak", lines)
    BY <1>3 DEF GetMenu, GetSettingsPage, LanguagePage
  <2>2. lines \in SUBSET OnPage(m)
    OBVIOUS
  <2> HIDE DEF lines
  <2> QED BY <2>1, <2>2
<1> QED BY <1>1, <1>2, <1>3 DEF IsList

-----------------------------------------------------------------------------
(* Whoever presses a number gets what its text says.                       *)

\* What PressDoesWhatItSays asks for c, whose number says that.
Honoured(c, says) ==
  LET level == client[c].level
      gets == client'[c]
  IN CASE says.does = "buy"   -> /\ gets.level \in {level, [level EXCEPT ![says.what] = @ + 1]}
                                 /\ gets.lang = client[c].lang
       [] says.does = "sell"  -> /\ gets.level \in {level, [level EXCEPT ![says.what] = @ - 1]}
                                 /\ gets.lang = client[c].lang
       [] says.does = "reset" -> /\ gets.level \in {level, [i \in Items |-> 0]}
                                 /\ gets.lang = client[c].lang
       [] says.does = "speak" -> /\ gets.level = level
                                 /\ \/ gets.lang = says.what \/ ~enable
                                    \/ [k \in DOMAIN menu[c].lines |-> menu[c].lines[k].what]
                                         # Tail(langs)
       [] OTHER               -> gets = client[c]

LEMMA NothingHappens ==
  ASSUME NEW c, NEW says, client' = client, says.does # "speak" \/ ~enable
  PROVE  Honoured(c, says)
BY DEF Honoured

LEMMA SaysFields == \A does, what : Says(does, what).does = does /\ Says(does, what).what = what
BY DEF Says

LEMMA NodeOf ==
  ASSUME MenuInv, NEW c \in Clients
  PROVE  /\ menu[c] \in Draft /\ Len(menu[c].lines) <= 2 * PageSize /\ Kept(menu[c], shown[c])
         /\ client[c] \in Player /\ Typed
<1> DEFINE m == menu[c]
<1>1. m \in Node /\ Kept(m, shown[c]) /\ client[c] \in Player /\ Typed
  BY DEF MenuInv, Typed
<1> HIDE DEF m
<1>2. m \in Draft /\ Len(m.lines) <= 2 * PageSize
  BY <1>1 DEF Node, Draft, NodeOfPage, Kept
<1> QED BY <1>1, <1>2 DEF m

LEMMA UpgradesHonoured ==
  ASSUME MenuInv, NEW c \in Clients, menu[c].submenu = "upgrades", shown[c] \in GetMenu(menu[c]),
         NEW n \in DOMAIN shown[c], SelectOption(c, menu[c], n)
  PROVE  Honoured(c, shown[c][n])
<1> DEFINE m == menu[c]
           says == shown[c][n]
<1>1. m \in Draft /\ Len(m.lines) <= 2 * PageSize /\ client[c] \in Player /\ Typed
  BY NodeOf
<1>2. n \in {Previous, Forth, Exit} => client' = client
  BY DEF SelectOption, UpgradesSelect
<1>3. shown[c] = IF m.lines = <<>> THEN Always ELSE ListScreen(m, "buy", OnPage(m))
  BY DEF GetMenu, GetUpgradesPage
<1>4. CASE m.lines = <<>>
  <2>1. n = Exit /\ says = Says("nothing", 0)
    BY <1>3, <1>4, OptionsSay
  <2> QED BY <1>2, <2>1, SaysFields, NothingHappens
<1>5. CASE m.lines # <<>> /\ n \in {Previous, Forth, Exit}
  <2>1. says = Says("nothing", 0)
    BY <1>1, <1>3, <1>5, ListSays
  <2> QED BY <1>2, <1>5, <2>1, SaysFields, NothingHappens
<1>6. CASE m.lines # <<>> /\ n \notin {Previous, Forth, Exit}
  <2>1. n \notin PreviousNext(m) \cup {Exit}
    BY <1>6 DEF PreviousNext
  <2>2. PICK k \in OnPage(m) : PageIndex(k) = n /\ says = Says("buy", m.lines[k].what)
    BY <1>1, <1>3, <1>6, <2>1, ListSays
  <2>3. Buys(c, m, n)
    BY <1>6 DEF SelectOption, UpgradesSelect
  <2>4. \A j \in Found(m, n) : j = k
    BY <1>1, <2>2, FoundOne DEF Found
  <2> DEFINE i == m.lines[k].what
  <2>5. client' = client \/ client' = [client EXCEPT ![c].level[i] = @ + 1]
    BY <2>3, <2>4 DEF Buys
  <2>6. says.does = "buy" /\ says.what = i
    BY <2>2, SaysFields
  <2> HIDE DEF i, says
  <2>7. client'[c].level \in {client[c].level, [client[c].level EXCEPT ![i] = @ + 1]}
        /\ client'[c].lang = client[c].lang
    BY <1>1, <2>5 DEF Typed, Player
  <2>8. Honoured(c, says)
    BY <2>6, <2>7 DEF Honoured
  <2> QED BY <2>8 DEF says
<1> QED BY <1>4, <1>5, <1>6

LEMMA SellHonoured ==
  ASSUME MenuInv, NEW c \in Clients, menu[c].submenu = "sell", shown[c] \in GetMenu(menu[c]),
         NEW n \in DOMAIN shown[c], SelectOption(c, menu[c], n)
  PROVE  Honoured(c, shown[c][n])
<1> DEFINE m == menu[c]
           says == shown[c][n]
<1>1. m \in Draft /\ Len(m.lines) <= 2 * PageSize /\ client[c] \in Player /\ Typed
  BY NodeOf
<1>2. n = Exit \/ SellSelect(c, m, n)
  BY DEF SelectOption
<1>3. n = Exit => client' = client
  BY DEF SelectOption
<1>4. CASE m.ia = 0
  <2>1. client' = client
    BY <1>2, <1>3, <1>4 DEF SellSelect
  <2>2. shown[c] = IF m.lines = <<>> THEN Always ELSE ListScreen(m, "nothing", OnPage(m))
    BY <1>4 DEF GetMenu, GetSellPage
  <2>3. says.does = "nothing"
    <3>1. CASE m.lines = <<>>
      BY <2>2, <3>1, OptionsSay, SaysFields
    <3>2. CASE m.lines # <<>>
      BY <1>1, <2>2, <3>2, ListSays, SaysFields
    <3> QED BY <3>1, <3>2
  <2> QED BY <2>1, <2>3, NothingHappens
<1>5. CASE m.ia # 0 /\ Found(m, m.ia) = {}
  <2>1. client' = client
    BY <1>2, <1>3, <1>5 DEF SellSelect
  <2>2. shown[c] = Confirm("nothing", 0)
    BY <1>5 DEF GetMenu, GetSellPage
  <2>3. says.does = "nothing"
    BY <2>2, OptionsSay, SaysFields
  <2> QED BY <2>1, <2>3, NothingHappens
<1>6. CASE m.ia # 0 /\ Found(m, m.ia) # {}
  <2> DEFINE i == Pending(m)
  <2>1. shown[c] = Confirm("sell", i)
    BY <1>6 DEF GetMenu, GetSellPage
  <2>2. says = IF n = 1 THEN Says("sell", i) ELSE Says("nothing", 0)
    BY <2>1, OptionsSay
  <2>3. client' = client \/ (n = 1 /\ client' = [client EXCEPT ![c].level[i] = @ - 1])
    BY <1>2, <1>3, <1>6 DEF SellSelect
  <2> HIDE DEF i, says
  <2>4. CASE client' = client
    <3>1. says.does # "speak"
      BY <2>2, SaysFields
    <3> QED BY <2>4, <3>1, NothingHappens DEF says
  <2>5. CASE n = 1 /\ client' = [client EXCEPT ![c].level[i] = @ - 1]
    <3>1. says.does = "sell" /\ says.what = i
      BY <2>2, <2>5, SaysFields
    <3>2. client'[c].level \in {client[c].level, [client[c].level EXCEPT ![i] = @ - 1]}
          /\ client'[c].lang = client[c].lang
      BY <1>1, <2>5 DEF Typed, Player
    <3>3. Honoured(c, says)
      BY <3>1, <3>2 DEF Honoured
    <3> QED BY <3>3 DEF says
  <2> QED BY <2>3, <2>4, <2>5
<1> QED BY <1>4, <1>5, <1>6

\* A language that is chosen is the one on that line, if the list is the one that the
\* lines were made of.
LEMMA LanguageHonoured ==
  ASSUME MenuInv, NEW c \in Clients, menu[c].submenu = "settings", menu[c].ia = 1,
         shown[c] \in GetMenu(menu[c]), NEW n \in DOMAIN shown[c], SelectOption(c, menu[c], n)
  PROVE  Honoured(c, shown[c][n])
<1> DEFINE m == menu[c]
           says == shown[c][n]
           lines == {k \in OnPage(m) : m.lines[k].enabled}
<1>1. m \in Draft /\ Len(m.lines) <= 2 * PageSize /\ client[c] \in Player /\ Typed
  BY NodeOf
<1>2. n \in {Previous, Forth, Exit} => client' = client
  BY DEF SelectOption, SettingsSelect
<1>3. shown[c] = IF m.lines = <<>> THEN Always ELSE ListScreen(m, "speak", lines)
  BY DEF GetMenu, GetSettingsPage, LanguagePage
<1>4. lines \in SUBSET OnPage(m)
  OBVIOUS
<1> HIDE DEF lines
<1>5. CASE m.lines = <<>>
  <2>1. n = Exit /\ says = Says("nothing", 0)
    BY <1>3, <1>5, OptionsSay
  <2> QED BY <1>2, <2>1, SaysFields, NothingHappens
<1>6. CASE m.lines # <<>> /\ n \in {Previous, Forth, Exit}
  <2>1. says = Says("nothing", 0)
    BY <1>1, <1>3, <1>4, <1>6, ListSays
  <2> QED BY <1>2, <1>6, <2>1, SaysFields, NothingHappens
<1>7. CASE m.lines # <<>> /\ n \notin {Previous, Forth, Exit}
  <2>1. n \notin PreviousNext(m) \cup {Exit}
    BY <1>7 DEF PreviousNext
  <2>2. PICK k \in OnPage(m) : PageIndex(k) = n /\ says = Says("speak", m.lines[k].what)
    BY <1>1, <1>3, <1>4, <1>7, <2>1, ListSays
  <2>3. LanguageSelect(c, m, n)
    <3>1. n # TooLarge
      BY <1>1, NumbersFacts DEF Typed
    <3> QED BY <1>7, <3>1 DEF SelectOption, SettingsSelect
  <2>4. \A j \in Found(m, n) : j = k
    BY <1>1, <2>2, FoundOne DEF Found
  <2>5. k \in Found(m, n)
    BY <2>2 DEF Found
  <2>6. IF Counted(k) = {} THEN client' = client
        ELSE \E name \in Counted(k) :
               client' = [client EXCEPT ![c].lang = name, ![c].lang_is_set = TRUE]
    BY <2>3, <2>4, <2>5 DEF LanguageSelect
  <2> DEFINE what == m.lines[k].what
  <2>7. says.does = "speak" /\ says.what = what
    BY <2>2, SaysFields
  <2>8. client'[c].level = client[c].level
    BY <1>1, <2>6 DEF Typed, Player
  <2>9. ASSUME [j \in DOMAIN m.lines |-> m.lines[j].what] = Tail(langs)
        PROVE  client'[c].lang = what
    <3>1. k \in DOMAIN m.lines
      BY DEF OnPage
    <3>2. k \in DOMAIN Tail(langs) /\ Tail(langs)[k] = what
      BY <2>9, <3>1
    <3>3. langs \in Seq(Names \cup {Default}) /\ langs # <<>>
      BY <1>1, ListNames DEF Typed
    <3> HIDE DEF m, what
    <3>4. k + 1 \in DOMAIN langs /\ langs[k + 1] = what
      BY <3>2, <3>3
    <3>5. Counted(k) = {what}
      BY <3>4 DEF Counted
    <3> QED BY <1>1, <2>6, <3>5 DEF Typed, Player
  <2> HIDE DEF what, says
  <2>10. Honoured(c, says)
    BY <2>7, <2>8, <2>9 DEF Honoured
  <2> QED BY <2>10 DEF says
<1> QED BY <1>5, <1>6, <1>7

LEMMA SettingsHonoured ==
  ASSUME MenuInv, NEW c \in Clients, menu[c].submenu = "settings", menu[c].ia # 1,
         shown[c] \in GetMenu(menu[c]), NEW n \in DOMAIN shown[c], SelectOption(c, menu[c], n)
  PROVE  Honoured(c, shown[c][n])
<1> DEFINE m == menu[c]
           says == shown[c][n]
<1>1. client[c] \in Player /\ Typed
  BY NodeOf
<1>2. CASE m.ia # 2
  <2>1. client' = client
    BY <1>2 DEF SelectOption, SettingsSelect
  <2>2. shown[c] = SetOptions({1, 2})
    BY <1>2 DEF GetMenu, GetSettingsPage
  <2>3. says.does = "nothing"
    BY <2>2, OptionsSay, SaysFields
  <2> QED BY <2>1, <2>3, NothingHappens
<1>3. CASE m.ia = 2
  <2>1. client' = client
        \/ (n = 1 /\ client' = [client EXCEPT ![c].level = [i \in Items |-> 0]])
    BY <1>3 DEF SelectOption, SettingsSelect
  <2>2. shown[c] = Confirm("reset", 0)
    BY <1>3 DEF GetMenu, GetSettingsPage
  <2>3. says = IF n = 1 THEN Says("reset", 0) ELSE Says("nothing", 0)
    BY <2>2, OptionsSay
  <2> HIDE DEF says
  <2>4. CASE client' = client
    <3>1. says.does # "speak"
      BY <2>3, SaysFields
    <3> QED BY <2>4, <3>1, NothingHappens DEF says
  <2>5. CASE n = 1 /\ client' = [client EXCEPT ![c].level = [i \in Items |-> 0]]
    <3>1. says.does = "reset"
      BY <2>3, <2>5, SaysFields
    <3>2. client'[c].level = [i \in Items |-> 0] /\ client'[c].lang = client[c].lang
      BY <1>1, <2>5 DEF Typed, Player
    <3>3. Honoured(c, says)
      BY <3>1, <3>2 DEF Honoured
    <3> QED BY <3>3 DEF says
  <2> QED BY <2>1, <2>4, <2>5
<1> QED BY <1>2, <1>3

LEMMA PressHonoured ==
  ASSUME MenuInv, NEW c \in Clients, NEW n \in DOMAIN screen[c], Press(c, n), UpToDate(c)
  PROVE  Honoured(c, screen[c][n])
<1>1. screen[c] = shown[c] /\ Kept(menu[c], shown[c]) /\ menu[c].submenu \in Submenus
  BY NodeOf DEF UpToDate, Draft, NodeOfPage
<1>2. menu[c].open
  BY <1>1 DEF Kept, Blank
<1>3. shown[c] \in GetMenu(menu[c])
  BY <1>1, <1>2 DEF Kept
<1>4. CASE ~enable
  <2>1. client' = client
    BY <1>4 DEF Press
  <2> QED BY <1>4, <2>1, NothingHappens
<1>5. CASE enable
  <2>1. SelectOption(c, menu[c], n)
    BY <1>2, <1>5 DEF Press
  <2>2. CASE menu[c].submenu \in {"none", "stats", "help", "top10"}
    <3>1. client' = client
      BY <2>1, <2>2 DEF SelectOption
    <3>2. \E ns : shown[c] = SetOptions(ns)
      BY <1>3, <2>2 DEF GetMenu, MainPage, GetStatsPage, GetHelpPage, GetTop10Pages, Always
    <3>3. shown[c][n].does = "nothing"
      BY <1>1, <3>2, OptionsSay, SaysFields
    <3> QED BY <1>1, <3>1, <3>3, NothingHappens
  <2>3. CASE menu[c].submenu \in {"upgrades", "sell", "settings"}
    BY <1>1, <1>3, <2>1, <2>3, UpgradesHonoured, SellHonoured, LanguageHonoured, SettingsHonoured
  <2> QED BY <1>1, <2>2, <2>3 DEF Submenus
<1> QED BY <1>4, <1>5

\* A number on a screen that is up to date does what its text says or nothing, however
\* long the screen has been there, whatever became of upgrades and levels meanwhile and
\* however many pages the list has.
THEOREM PressesHonoured == Spec => PressDoesWhatItSays
<1>1. MenuInv => \A c \in Clients : \A n \in DOMAIN screen[c] :
                   Press(c, n) /\ UpToDate(c) => Honoured(c, screen[c][n])
  BY PressHonoured
<1> QED BY <1>1, MenuInvariant, PTL DEF PressDoesWhatItSays, Honoured

-----------------------------------------------------------------------------
(* Nothing undefined.                                                      *)

\* Nobody's language was freed.
AllReadable == \A c \in Clients : client[c].lang # Freed

\* A list on its first page, or on a page that has lines, can be drawn.
LEMMA DrawnInOrder ==
  ASSUME Typed, NEW c \in Clients, client[c].lang # Freed, NEW m \in Draft,
         Len(m.lines) <= 2 * PageSize,
         IsList(m) => m.page = 0 \/ (m.lines # <<>> /\ OnPage(m) # {}), CreateMenu(c, m)
  PROVE  broken' = broken
<1> DEFINE listed == Listed(c, m)
<1>1. /\ listed \in Draft /\ Len(listed.lines) <= 2 * PageSize
      /\ listed.page = m.page /\ (~IsList(m) \/ m.lines # <<>> => listed = m)
      /\ listed.submenu = m.submenu /\ listed.ia = m.ia
  BY ListedDraft
<1>2. CreateMenu(c, m) /\ ~Undrawable(c, listed) => broken' = broken
  BY DEF CreateMenu
<1> HIDE DEF listed
<1>3. ~Unreadable(c)
  BY NoneIncomplete DEF Unreadable
<1>4. ASSUME IsList(listed), listed.lines # <<>> PROVE OnPage(listed) # {}
  <2>1. IsList(m)
    BY <1>1, <1>4 DEF IsList
  <2>2. CASE m.page = 0
    BY <1>1, <1>4, <2>2, Pages
  <2>3. CASE m.lines # <<>> /\ OnPage(m) # {}
    BY <1>1, <2>3
  <2> QED BY <2>1, <2>2, <2>3
<1>5. ~Undrawable(c, listed)
  BY <1>3, <1>4 DEF Undrawable
<1> QED BY <1>2, <1>5

\* Previous and Next lead to a page that has lines.
LEMMA TurnedInOrder ==
  ASSUME MenuInv, NEW c \in Clients, client[c].lang # Freed, menu[c].open, IsList(menu[c]),
         NEW n \in DOMAIN shown[c], n \in {Previous, Forth}, TurnPage(c, menu[c], n)
  PROVE  broken' = broken
<1> DEFINE m == menu[c]
           draft == IF n = Previous
                    THEN [m EXCEPT !.page = IF @ > 0 THEN @ - 1 ELSE @,
                                   !.ia = IF m.submenu = "upgrades" THEN 0 ELSE @]
                    ELSE [m EXCEPT !.page = IF m.submenu = "upgrades" /\ m.ia = 1 THEN @ ELSE @ + 1]
<1>1. m \in Draft /\ Len(m.lines) <= 2 * PageSize /\ shown[c] \in GetMenu(m) /\ Typed
      /\ (OnPage(m) # {} \/ m.lines = <<>>)
  BY NodeOf DEF Kept
<1>2. CreateMenu(c, draft)
  BY DEF TurnPage
<1>3. IsList(m) /\ Previous # Forth /\ Previous # Exit /\ Forth # Exit /\ PageSize \in Nat
  BY NumbersFacts
<1>4. n \in DOMAIN shown[c]
  OBVIOUS
<1> HIDE DEF m
<1>5. m.lines # <<>>
  BY <1>1, <1>3, <1>4, ListDrawn, OptionsSay
<1>6. PICK does, lines : lines \in SUBSET OnPage(m) /\ shown[c] = ListScreen(m, does, lines)
  BY <1>1, <1>3, <1>5, ListDrawn
<1>7. n \in PreviousNext(m)
  BY <1>1, <1>3, <1>4, <1>6, ListSays
<1>8. /\ Len(m.lines) \in Nat /\ m.page \in {0, 1} /\ m.ia \in 0..TooLarge
      /\ LastOnPage(m) = IF m.page = 0 /\ Len(m.lines) > PageSize THEN PageSize ELSE Len(m.lines)
  <2>1. m.page \in Nat /\ m.ia \in 0..TooLarge
    BY <1>1 DEF Draft, NodeOfPage
  <2>2. Len(m.lines) \in Nat /\ ~(m.page > 1)
    BY <1>1, <1>3, <1>5, Pages
  <2>3. LastOnPage(m) = IF m.page = 0 /\ Len(m.lines) > PageSize THEN PageSize ELSE Len(m.lines)
    BY <1>1, <1>5, LastOf
  <2> QED BY <2>1, <2>2, <2>3
<1>9. CASE n = Previous
  <2>1. draft = [m EXCEPT !.page = draft.page, !.ia = draft.ia]
    BY <1>1, <1>9 DEF Draft, NodeOfPage
  <2>2. draft.page = 0 /\ draft.ia \in 0..TooLarge
    <3>1. draft.page = IF m.page > 0 THEN m.page - 1 ELSE m.page
      BY <1>1, <1>9 DEF Draft, NodeOfPage
    <3>2. draft.ia \in {0, m.ia}
      BY <1>1, <1>9 DEF Draft, NodeOfPage
    <3> HIDE DEF draft
    <3>3. draft.page = 0
      BY <1>8, <3>1
    <3> QED BY <1>8, <3>2, <3>3, NumbersFacts
  <2> HIDE DEF draft
  <2>3. draft \in Draft /\ draft.lines = m.lines
    <3>1. draft.page \in Nat
      BY <2>2
    <3> QED BY <1>1, <2>1, <2>2, <3>1 DEF Draft, NodeOfPage
  <2> QED BY <1>1, <1>2, <2>2, <2>3, DrawnInOrder
<1>10. CASE n = Forth
  <2>1. HasNext(LastOnPage(m), Len(m.lines))
    BY <1>3, <1>7, <1>10 DEF PreviousNext
  <2>2. m.page = 0 /\ Len(m.lines) > PageSize
    BY <1>3, <1>8, <2>1 DEF HasNext
  <2>3. draft = [m EXCEPT !.page = draft.page]
    BY <1>1, <1>3, <1>10 DEF Draft, NodeOfPage
  <2>4. draft.page \in {0, 1}
    BY <1>1, <1>3, <1>10, <2>2 DEF Draft, NodeOfPage
  <2> HIDE DEF draft
  <2>5. draft \in Draft /\ draft.lines = m.lines
    BY <1>1, <2>3, <2>4 DEF Draft, NodeOfPage
  <2>6. draft.page = 1 => PageSize + 1 \in OnPage(draft)
    <3> DEFINE k == PageSize + 1
    <3>1. k \in 1..Len(draft.lines) /\ ~(k <= PageSize)
      BY <1>3, <1>8, <2>2, <2>5
    <3>2. OnPage(draft) = {j \in 1..Len(draft.lines) :
                             IF j <= PageSize THEN draft.page = 0 ELSE draft.page = 1}
      BY <1>1, <2>5, Pages
    <3> HIDE DEF k
    <3>3. draft.page = 1 => k \in OnPage(draft)
      BY <3>1, <3>2
    <3> QED BY <3>3 DEF k
  <2> QED BY <1>1, <1>2, <1>5, <2>4, <2>5, <2>6, DrawnInOrder
<1> QED BY <1>9, <1>10

\* A number that the screen shows.
LEMMA PressInOrder ==
  ASSUME MenuInv, NEW c \in Clients, client[c].lang # Freed, NEW n \in DOMAIN screen[c],
         UpToDate(c), Press(c, n)
  PROVE  broken' = broken
<1> DEFINE m == menu[c]
<1>1. m \in Draft /\ Len(m.lines) <= 2 * PageSize /\ Kept(m, shown[c]) /\ Typed
      /\ n \in DOMAIN shown[c]
  BY NodeOf DEF UpToDate
<1> n \in Numbers /\ n # TooLarge
  BY <1>1, NumbersFacts DEF Typed
<1>2. CASE ~(enable /\ m.open)
  BY <1>2 DEF Press
<1>3. CASE DelMenu(c)
  BY <1>3 DEF DelMenu
<1>4. CASE enable /\ m.open /\ ~DelMenu(c)
  <2>1. SelectOption(c, m, n)
    BY <1>4 DEF Press
  <2>2. CASE IsList(m) /\ n \in {Previous, Forth} /\ TurnPage(c, m, n)
    BY <1>1, <1>4, <2>2, TurnedInOrder
  <2>3. CASE m.submenu = "sell" /\ n \notin {Previous, Forth} /\ CreateMenu(c, [m EXCEPT !.ia = n])
    <3> DEFINE draft == [m EXCEPT !.ia = n]
    <3>1. n \in 0..TooLarge /\ n # 0
      BY NumbersFacts
    <3>2. CreateMenu(c, draft)
      BY <2>3
    <3> HIDE DEF m
    <3>3. draft \in Draft /\ draft.lines = m.lines /\ ~IsList(draft)
      BY <1>1, <2>3, <3>1 DEF Draft, NodeOfPage, IsList
    <3> HIDE DEF draft
    <3> QED BY <1>1, <3>2, <3>3, DrawnInOrder
  <2>4. CASE m.submenu = "settings" /\ m.ia = 0 /\ CreateMenu(c, [m EXCEPT !.ia = n])
    <3> DEFINE draft == [m EXCEPT !.ia = n]
    <3>1. n \in 0..TooLarge
      BY NumbersFacts
    <3>2. CreateMenu(c, draft) /\ m.page = 0
      BY <1>1, <2>4 DEF Kept
    <3> HIDE DEF m
    <3>3. draft \in Draft /\ draft.lines = m.lines /\ draft.page = 0
      BY <1>1, <2>4, <3>1, <3>2 DEF Draft, NodeOfPage
    <3> HIDE DEF draft
    <3> QED BY <1>1, <3>2, <3>3, DrawnInOrder
  <2>5. CASE m.submenu = "settings" /\ m.ia = 1 /\ n \notin {Previous, Forth, Exit}
             /\ LanguageSelect(c, m, n)
    <3>1. IsList(m) /\ shown[c] \in GetMenu(m) /\ Found(m, n) = {}
      BY <1>1, <1>4, <2>5 DEF IsList, Kept, LanguageSelect
    <3>2. m.lines # <<>>
      BY <1>1, <2>5, <3>1, ListDrawn, OptionsSay
    <3>3. PICK does, lines : lines \in SUBSET OnPage(m) /\ shown[c] = ListScreen(m, does, lines)
      BY <1>1, <3>1, <3>2, ListDrawn
    <3>4. \E k \in OnPage(m) : PageIndex(k) = n
      BY <1>1, <2>5, <3>3, ListSays DEF PreviousNext
    <3> QED BY <3>1, <3>4 DEF Found
  <2>6. CASE m.submenu = "none" /\ n <= 5 /\ MainSelect(c, m, n)
    <3> DEFINE draft == [m EXCEPT !.submenu = ChosenSubmenu(n), !.page = 0]
    <3>1. CreateMenu(c, draft)
      BY <1>4, <2>6 DEF MainSelect
    <3>2. ChosenSubmenu(n) \in Submenus
      <4>1. n \in 1..5
        BY <2>6, NumbersFacts
      <4> QED BY <4>1 DEF ChosenSubmenu, Submenus
    <3> HIDE DEF m
    <3>3. draft \in Draft /\ draft.lines = m.lines /\ draft.page = 0
      BY <1>1, <3>2 DEF Draft, NodeOfPage
    <3> HIDE DEF draft
    <3> QED BY <1>1, <3>1, <3>3, DrawnInOrder
  <2>7. CASE m.submenu = "none" /\ n > 5 /\ MainSelect(c, m, n)
    BY <1>4, <2>7, NumbersFacts DEF MainSelect
  <2>8. CASE m.submenu = "upgrades" /\ n \notin {Previous, Forth} /\ UpgradesSelect(c, m, n)
    BY <1>4, <2>8 DEF UpgradesSelect, Buys
  <2>9. m.submenu \in Submenus /\ n # Exit /\ n \in Int
    BY <1>1, <1>4, <2>1, NumbersFacts DEF Draft, NodeOfPage, SelectOption
  <2>10. CASE m.submenu = "none"
    BY <2>1, <2>6, <2>7, <2>9, <2>10 DEF SelectOption
  <2>11. CASE m.submenu = "upgrades"
    BY <2>1, <2>2, <2>8, <2>9, <2>11 DEF SelectOption, UpgradesSelect, IsList
  <2>12. CASE m.submenu = "sell"
    BY <1>4, <2>1, <2>2, <2>3, <2>9, <2>12 DEF SelectOption, SellSelect, IsList
  <2>13. CASE m.submenu = "settings"
    BY <1>4, <2>1, <2>2, <2>4, <2>5, <2>9, <2>13 DEF SelectOption, SettingsSelect, IsList
  <2>14. CASE m.submenu \in {"stats", "help", "top10"}
    BY <1>4, <2>1, <2>14 DEF SelectOption, HelpSelect
  <2> QED BY <2>9, <2>10, <2>11, <2>12, <2>13, <2>14 DEF Submenus
<1> QED BY <1>2, <1>3, <1>4

LEMMA CommandInOrder ==
  ASSUME MenuInv, AllReadable, NEW c \in Clients, NEW submenu \in Submenus,
         ClientCommand(c, submenu) \/ PlayerSay(c, submenu)
  PROVE  broken' = broken
<1> DEFINE m == AddMenu(submenu)
<1>1. CreateMenu(c, m) /\ Typed /\ client[c].lang # Freed
  BY DEF ClientCommand, PlayerSay, MenuInv, AllReadable
<1>2. m \in Draft /\ m.lines = <<>> /\ m.page = 0
  <2>1. NoMenu \in Draft /\ NoMenu.lines = <<>> /\ NoMenu.page = 0
    BY NoMenuKept, NumbersFacts DEF NoMenu, Node, Draft, NodeOfPage
  <2>2. m = [NoMenu EXCEPT !.open = TRUE, !.submenu = submenu]
    BY DEF AddMenu
  <2> QED BY <2>1, <2>2 DEF Draft, NodeOfPage
<1> HIDE DEF m
<1>3. Len(m.lines) <= 2 * PageSize
  BY <1>2, NumbersFacts
<1> QED BY <1>1, <1>2, <1>3, DrawnInOrder

\* Nothing but a press leads to anything undefined.
LEMMA StepInOrder ==
  ASSUME MenuInv, AllReadable, [Next]_vars, broken' # broken
  PROVE  \E c \in Clients, n \in Arguments : Press(c, n)
<1>1. CASE \E c \in Clients : ClientStep(c)
  <2>1. PICK c \in Clients : ClientStep(c)
    BY <1>1
  <2>2. CASE Connect(c) \/ Disconnect(c) \/ Receive(c)
             \/ \E i \in Items, n \in 0..MaxLevel : SetUpgradeLevel(c, i, n)
    BY <2>2 DEF Connect, Disconnect, DelMenu, Receive, SetUpgradeLevel
  <2> QED BY <2>1, <2>2, CommandInOrder DEF ClientStep
<1>2. CASE Announce
  <2>1. \A c \in Clients : ~Unreadable(c)
    BY NoneIncomplete DEF AllReadable, Unreadable
  <2>2. broken' = FALSE /\ broken = FALSE
    BY <1>2, <2>1 DEF Announce, MenuInv, Typed
  <2> QED BY <2>2
<1>3. CASE \/ \E list \in Lists : ReloadLanguages(list) \/ LevelChange(list)
           \/ \E i \in Items : SetItemEnable(i)
           \/ SetEnable \/ UNCHANGED vars
  BY <1>3 DEF ReloadLanguages, LevelChange, SetItemEnable, SetEnable, vars
<1> QED BY <1>1, <1>2, <1>3 DEF Next

\* As long as nobody has a language that reloadlangs freed, no number that an up-to-date
\* screen shows leads to anything undefined, and nothing but a number does: every page
\* that such a number or a command leads to can be drawn, Previous and Next lead to
\* pages that have lines, and every text is set, whatever else was typed before.
THEOREM NothingUndefinedHappens == Spec => NothingUndefined
<1>1. ASSUME MenuInv, [Next]_vars, broken', ~broken, \A c \in Clients : client[c].lang # Freed
      PROVE  /\ \E c \in Clients, n \in Arguments : Press(c, n)
             /\ \A c \in Clients : \A n \in DOMAIN screen[c] : Press(c, n) => ~UpToDate(c)
  <2>1. broken' # broken
    BY <1>1
  <2>2. \E c \in Clients, n \in Arguments : Press(c, n)
    BY <1>1, <2>1, StepInOrder DEF AllReadable
  <2>3. ASSUME NEW c \in Clients, NEW n \in DOMAIN screen[c], Press(c, n), UpToDate(c)
        PROVE  FALSE
    BY <1>1, <2>1, <2>3, PressInOrder
  <2> QED BY <2>2, <2>3
<1>2. MenuInv /\ [Next]_vars =>
        (broken' /\ ~broken /\ (\A c \in Clients : client[c].lang # Freed) =>
           /\ \E c \in Clients, n \in Arguments : Press(c, n)
           /\ \A c \in Clients : \A n \in DOMAIN screen[c] : Press(c, n) => ~UpToDate(c))
  BY <1>1
<1> QED BY <1>2, MenuInvariant, PTL DEF Spec, NothingUndefined
==============================================================================
