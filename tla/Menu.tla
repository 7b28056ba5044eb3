-------------------------------- MODULE Menu --------------------------------
(* The menus of CSS:RPG (CRPG_Menu, CRPG_MenuOptions) and the languages they *)
(* are drawn in (CRPG_TextDB).  The server keeps a menu for each client: the *)
(* submenu, the page, and the lines, which are listed when the submenu is    *)
(* drawn for the first time and kept until the menu is deleted.  The client  *)
(* has a screen: what it received last, which may be out of date.  It sends  *)
(* whatever number: that of a key, which closes the screen, or one that was  *)
(* typed after menuselect in the console.                                    *)
(*                                                                           *)
(* A screen maps the numbers that can be pressed to what their text says,    *)
(* [does, what].  Lines are numbered 1..PageSize on each page, Previous and  *)
(* Next follow, Exit comes last.  Undefined behaviour (`broken': a pointer   *)
(* that was not set, a language that was freed) is where a behaviour ends.   *)
(*                                                                           *)
(* Whether a purchase or a sale is refused is up to Economy: here it may be. *)
(* A client without a player gets no menu: it is deleted when it is drawn.   *)
(* A language is known by the name of its file (Languages), and a pointer to *)
(* a language by that name, or Freed.                                        *)
EXTENDS Languages, FiniteSets

CONSTANTS
  MaxClients,
  ItemCount,    \* ITEM_COUNT
  MaxLevel,     \* the maximum level of every upgrade
  PageSize,     \* 7
  MaxPage,      \* bound on the pages that Next leads to
  Freed         \* a language that is no more

ASSUME MenuConstants ==
  /\ MaxClients \in Nat \ {0} /\ ItemCount \in Nat \ {0} /\ MaxLevel \in Nat
  /\ MaxPage \in Nat \ {0, 1}
  /\ PageSize \in Nat \ {0, 1} /\ ItemCount <= 2 * PageSize
  /\ \A list \in Lists : Len(list) <= 2 * PageSize + 1
  /\ Freed \notin Names \cup {Default}

Clients == 1..MaxClients
Items == 1..ItemCount
Previous == PageSize + 1
Forth == PageSize + 2
Exit == PageSize + 3
Numbers == 1..Exit

\* What menuselect may be followed by: a key (or 0, which is as good as Exit), a number
\* that no key has, or one that even ITEM_COUNT is less than.
TooLarge == Exit + 2
Arguments == 1..TooLarge

VARIABLES
  enable,     \* cssrpg_enable
  enabled,    \* item_types[].enable
  langs,      \* the list of CRPG_TextDB, Default first
  client,     \* the player of each client
  menu,       \* the node of each client
  shown,      \* what the server drew last for each client
  screen,     \* what each client sees
  broken

vars == <<enable, enabled, langs, client, menu, shown, screen, broken>>

Submenus == {"none", "upgrades", "sell", "stats", "settings", "help", "top10"}
Line == [what : Items \cup Names, enabled : BOOLEAN]
NoMenu == [open |-> FALSE, submenu |-> "none", page |-> 0, ia |-> 0, lines |-> <<>>]
Blank == [n \in {} |-> [does |-> "nothing", what |-> 0]]

\* A line is an upgrade or a language; the latter may not be there to be chosen.
TypeOK ==
  /\ enable \in BOOLEAN /\ enabled \subseteq Items /\ broken \in BOOLEAN
  /\ langs \in Lists
  /\ \A c \in Clients :
       /\ client[c].online \in BOOLEAN /\ client[c].level \in [Items -> 0..MaxLevel]
       /\ client[c].lang \in Names \cup {Default, Freed} /\ client[c].lang_is_set \in BOOLEAN
       /\ menu[c].submenu \in Submenus /\ menu[c].page \in 0..MaxPage /\ menu[c].ia \in 0..TooLarge
       /\ menu[c].lines \in Seq(Line)
       /\ menu[c].open => client[c].online
       /\ \A m \in {shown[c], screen[c]} : DOMAIN m \subseteq Numbers

Online(c) == client[c].online
UpToDate(c) == shown[c] = screen[c]

FiletoTextDB(name) == IF name \in ToSet(langs) THEN name ELSE Default

-----------------------------------------------------------------------------
(* Pages.                                                                  *)

\* update_options, for the k-th line of n.
Page(k) == k \div (PageSize + 1)

\* Mutation: the numbers start again one line late.
PageIndexOfEight(k) == ((k - 1) % (PageSize + 1)) + 1

PageIndex(k) == ((k - 1) % PageSize) + 1
HasNext(k, n) == n - k >= 1
HasPrevious(k) == k > PageSize

OnPage(m) == {k \in DOMAIN m.lines : Page(k) = m.page}
LastOnPage(m) == CHOOSE k \in OnPage(m) : \A j \in OnPage(m) : j <= k

\* The line that a number stands for on m's page.
Found(m, n) == {k \in OnPage(m) : PageIndex(k) = n}

Says(does, what) == [does |-> does, what |-> what]
SetOptions(ns) == [n \in ns \cup {Exit} |-> Says("nothing", 0)]
Always == SetOptions({})

PreviousNext(m) ==
  {n \in {Previous, Forth} : IF n = Previous THEN HasPrevious(LastOnPage(m))
                                            ELSE HasNext(LastOnPage(m), Len(m.lines))}

\* What the page of a list shows: those of its lines, numbered, the way to the other
\* pages, and the exit.
ListScreen(m, does, lines) ==
  LET at(n) == CHOOSE k \in lines : PageIndex(k) = n
  IN [n \in {PageIndex(k) : k \in lines} \cup PreviousNext(m) \cup {Exit} |->
        IF n <= PageSize THEN Says(does, m.lines[at(n)].what) ELSE Says("nothing", 0)]

Confirm(does, what) == [SetOptions({1, 2}) EXCEPT ![1] = Says(does, what)]

-----------------------------------------------------------------------------
(* The lines of the pages that list something.                             *)

AddOption(what, can) == <<[what |-> what, enabled |-> can]>>

\* The upgrades in the order of item_types.  A maximum level is a matter of wording.
UpgradeLines(c) ==
  FlattenSeq([i \in Items |-> IF i \in enabled THEN AddOption(i, TRUE) ELSE <<>>])

SellLines(c) ==
  FlattenSeq([i \in Items |-> IF client[c].level[i] = 0 \/ i \notin enabled THEN <<>>
                              ELSE AddOption(i, TRUE)])

\* Default is hidden, and AddOption takes no empty name.  Whoever has set a language
\* cannot choose it again.
LanguageLines(c) ==
  LET again(name) == client[c].lang_is_set /\ name = client[c].lang
      line(name) == IF name \in Nameless THEN <<>> ELSE AddOption(name, ~again(name))
  IN FlattenSeq([k \in DOMAIN Tail(langs) |-> line(Tail(langs)[k])])

IsList(m) ==
  m.submenu = "upgrades" \/ (m.submenu = "sell" /\ m.ia = 0) \/ (m.submenu = "settings" /\ m.ia = 1)

\* Mutation: the lines are listed anew whenever the page is drawn.
ListedAnew(c, m) ==
  IF ~IsList(m) THEN m
  ELSE [m EXCEPT !.lines = CASE m.submenu = "upgrades" -> UpgradeLines(c)
                             [] m.submenu = "sell"     -> SellLines(c)
                             [] m.submenu = "settings" -> LanguageLines(c)]

\* A page that lists something, with the lines it has or, if it has none, gets.
Listed(c, m) ==
  IF ~IsList(m) \/ m.lines # <<>> THEN m
  ELSE [m EXCEPT !.lines = CASE m.submenu = "upgrades" -> UpgradeLines(c)
                             [] m.submenu = "sell"     -> SellLines(c)
                             [] m.submenu = "settings" -> LanguageLines(c)]

-----------------------------------------------------------------------------
(* Pages: the screens that may be drawn of the menu m.                     *)

MainPage == SetOptions(1..5)

GetUpgradesPage(m) ==
  IF m.lines = <<>> THEN Always ELSE ListScreen(m, "buy", OnPage(m))

\* The line that waits for a yes.
Pending(m) == m.lines[CHOOSE k \in Found(m, m.ia) : TRUE].what

GetSellPage(m) ==
  CASE m.ia # 0 /\ Found(m, m.ia) # {} -> Confirm("sell", Pending(m))
    [] m.ia # 0 /\ Found(m, m.ia) = {} -> Confirm("nothing", 0)
    [] m.ia = 0 /\ m.lines = <<>>      -> Always
    [] m.ia = 0 /\ m.lines # <<>>      -> ListScreen(m, "nothing", OnPage(m))

GetStatsPage == SetOptions(1..(PageSize + 2))

LanguagePage(m) ==
  IF m.lines = <<>> THEN Always
  ELSE ListScreen(m, "speak", {k \in OnPage(m) : m.lines[k].enabled})

GetSettingsPage(m) ==
  CASE m.ia = 1 -> LanguagePage(m)
    [] m.ia = 2 -> Confirm("reset", 0)
    [] m.ia \notin {1, 2} -> SetOptions({1, 2})

GetHelpPage == SetOptions(1..4)

\* With fewer than ten rows in the table there is nothing to show.
GetTop10Pages == {Always, SetOptions(1..(PageSize + 2))}

GetMenu(m) ==
  CASE m.submenu = "none"     -> {MainPage}
    [] m.submenu = "upgrades" -> {GetUpgradesPage(m)}
    [] m.submenu = "sell"     -> {GetSellPage(m)}
    [] m.submenu = "stats"    -> {GetStatsPage}
    [] m.submenu = "settings" -> {GetSettingsPage(m)}
    [] m.submenu = "help"     -> {GetHelpPage}
    [] m.submenu = "top10"    -> GetTop10Pages

\* On the last page of the upgrades data.ia keeps Next from working.
AtTheEnd(m) ==
  IF m.submenu = "upgrades" /\ m.lines # <<>>
     /\ HasPrevious(LastOnPage(m)) /\ ~HasNext(LastOnPage(m), Len(m.lines))
  THEN [m EXCEPT !.ia = 1] ELSE m

-----------------------------------------------------------------------------
(* The menu of a client.                                                   *)

\* A language that was freed, or a text that is not set, cannot be read.
Unreadable(c) ==
  client[c].lang = Freed \/ client[c].lang \in Incomplete

\* Nor can an empty page be drawn: it leaves `temp' unset.
Undrawable(c, m) ==
  Unreadable(c) \/ (IsList(m) /\ m.lines # <<>> /\ OnPage(m) = {})

CreateMenu(c, m) ==
  LET listed == Listed(c, m)
  IN IF Undrawable(c, listed)
     THEN broken' = TRUE /\ UNCHANGED <<menu, shown>>
     ELSE /\ menu' = [menu EXCEPT ![c] = AtTheEnd(listed)]
          /\ \E drawn \in GetMenu(listed) : shown' = [shown EXCEPT ![c] = drawn]
          /\ UNCHANGED broken

\* Whatever menu there was is deleted.
AddMenu(submenu) == [NoMenu EXCEPT !.open = TRUE, !.submenu = submenu]

DelMenu(c) ==
  /\ menu' = [menu EXCEPT ![c] = NoMenu] /\ shown' = [shown EXCEPT ![c] = Blank]
  /\ UNCHANGED broken

-----------------------------------------------------------------------------
(* Selecting.                                                              *)

\* Next does not ask whether there is a next page, but for AtTheEnd's data.ia.
TurnPage(c, m, n) ==
  /\ n = Forth => m.page < MaxPage
  /\ CreateMenu(c, IF n = Previous
                   THEN [m EXCEPT !.page = IF @ > 0 THEN @ - 1 ELSE @,
                                  !.ia = IF m.submenu = "upgrades" THEN 0 ELSE @]
                   ELSE [m EXCEPT !.page = IF m.submenu = "upgrades" /\ m.ia = 1 THEN @ ELSE @ + 1])

\* Mutation: the number is looked up on the first page.
BuysOnFirstPage(c, m, n) ==
  /\ \/ UNCHANGED client
     \/ \E k \in {j \in DOMAIN m.lines : j <= PageSize /\ PageIndex(j) = n} :
          /\ client[c].level[m.lines[k].what] < MaxLevel
          /\ client' = [client EXCEPT ![c].level[m.lines[k].what] = @ + 1]
  /\ DelMenu(c)

\* BuyItem, if it is not refused.
Buys(c, m, n) ==
  /\ \/ UNCHANGED client
     \/ \E k \in Found(m, n) :
          /\ client[c].level[m.lines[k].what] < MaxLevel
          /\ client' = [client EXCEPT ![c].level[m.lines[k].what] = @ + 1]
  /\ DelMenu(c)

UpgradesSelect(c, m, n) ==
  \/ n \in {Previous, Forth} /\ TurnPage(c, m, n) /\ UNCHANGED client
  \/ n \notin {Previous, Forth} /\ Buys(c, m, n)

SellSelect(c, m, n) ==
  \/ m.ia = 0 /\ n \in {Previous, Forth} /\ TurnPage(c, m, n) /\ UNCHANGED client
  \/ m.ia = 0 /\ n \notin {Previous, Forth} /\ CreateMenu(c, [m EXCEPT !.ia = n])
     /\ UNCHANGED client
  \/ m.ia # 0 /\ (n # 1 \/ Found(m, m.ia) = {}) /\ DelMenu(c) /\ UNCHANGED client
  \/ /\ m.ia # 0 /\ n = 1 /\ Found(m, m.ia) # {}
     /\ \/ UNCHANGED client
        \/ /\ client[c].level[Pending(m)] > 0
           /\ client' = [client EXCEPT ![c].level[Pending(m)] = @ - 1]
     /\ DelMenu(c)

\* Mutation: the languages are counted from 1.
CountedFromOne(k) == IF k \in DOMAIN langs THEN {langs[k]} ELSE {}

\* The list is counted from 0 and the lines from 1: the one that is hidden comes first.
Counted(k) == IF k + 1 \in DOMAIN langs THEN {langs[k + 1]} ELSE {}

\* A number without a line leaves `txtdb' unset.
LanguageSelect(c, m, n) ==
  IF Found(m, n) = {}
  THEN broken' = TRUE /\ UNCHANGED <<client, menu, shown>>
  ELSE /\ \E k \in Found(m, n) :
            IF Counted(k) = {} THEN UNCHANGED client
            ELSE \E name \in Counted(k) :
                   client' = [client EXCEPT ![c].lang = name, ![c].lang_is_set = TRUE]
       /\ DelMenu(c)

SettingsSelect(c, m, n) ==
  \/ n = TooLarge /\ DelMenu(c) /\ UNCHANGED client
  \/ /\ n # TooLarge
     /\ \/ m.ia = 0 /\ CreateMenu(c, [m EXCEPT !.ia = n]) /\ UNCHANGED client
        \/ m.ia = 1 /\ n \in {Previous, Forth} /\ TurnPage(c, m, n) /\ UNCHANGED client
        \/ m.ia = 1 /\ n \notin {Previous, Forth} /\ LanguageSelect(c, m, n)
        \/ /\ m.ia = 2 /\ n = 1 /\ DelMenu(c)
           /\ client' = [client EXCEPT ![c].level = [i \in Items |-> 0]]
        \/ (m.ia > 2 \/ (m.ia = 2 /\ n # 1)) /\ DelMenu(c) /\ UNCHANGED client

\* ShowMOTD is the client's.
HelpSelect(c) == DelMenu(c)

ChosenSubmenu(n) == <<"upgrades", "sell", "stats", "settings", "help">>[n]

MainSelect(c, m, n) ==
  \/ n <= 5 /\ CreateMenu(c, [m EXCEPT !.submenu = ChosenSubmenu(n), !.page = 0])
  \/ n > 5 /\ DelMenu(c)

SelectOption(c, m, n) ==
  \/ n = Exit /\ DelMenu(c) /\ UNCHANGED client
  \/ /\ n # Exit
     /\ \/ m.submenu = "none" /\ MainSelect(c, m, n) /\ UNCHANGED client
        \/ m.submenu = "upgrades" /\ UpgradesSelect(c, m, n)
        \/ m.submenu = "sell" /\ SellSelect(c, m, n)
        \/ m.submenu = "settings" /\ SettingsSelect(c, m, n)
        \/ m.submenu = "help" /\ HelpSelect(c) /\ UNCHANGED client
        \/ m.submenu \in {"stats", "top10"} /\ DelMenu(c) /\ UNCHANGED client

-----------------------------------------------------------------------------
(* Clients.                                                                *)

\* menuselect n.  The server does not ask whether the screen shows n.  Without a menu, or
\* while the plugin is disabled, it is for another plugin.  (A screen that stays because
\* n was typed counts as closed and may be received again: any number may follow anyway.)
Press(c, n) ==
  /\ ~broken
  /\ screen' = [screen EXCEPT ![c] = Blank]
  /\ IF enable /\ menu[c].open THEN SelectOption(c, menu[c], n)
                               ELSE UNCHANGED <<client, menu, shown, broken>>
  /\ UNCHANGED <<enable, enabled, langs>>

\* rpgmenu, rpgbuy, rpgsell, rpgstats, rpghelp or rpgtop10 in the console.
ClientCommand(c, submenu) ==
  /\ ~broken /\ enable /\ Online(c) /\ submenu # "settings"
  /\ CreateMenu(c, AddMenu(submenu))
  /\ UNCHANGED <<enable, enabled, langs, client, screen>>

\* rpgmenu, rpghelp or rpgtop10 in the chat.
PlayerSay(c, submenu) ==
  /\ ~broken /\ enable /\ Online(c) /\ submenu \in {"none", "help", "top10"}
  /\ CreateMenu(c, AddMenu(submenu))
  /\ UNCHANGED <<enable, enabled, langs, client, screen>>

\* The client receives what was drawn.
Receive(c) ==
  /\ ~broken /\ menu[c].open /\ ~UpToDate(c)
  /\ screen' = [screen EXCEPT ![c] = shown[c]]
  /\ UNCHANGED <<enable, enabled, langs, client, menu, shown, broken>>

\* AddPlayer and LoadData: the server's default language, or the one in the database,
\* which the folder may no longer have.
Connect(c) ==
  /\ ~broken /\ ~Online(c)
  /\ \E lv \in [Items -> 0..MaxLevel], name \in Names, set \in BOOLEAN :
       client' = [client EXCEPT ![c] =
                    [online |-> TRUE, level |-> lv, lang |-> FiletoTextDB(name),
                     lang_is_set |-> set /\ FiletoTextDB(name) # Default]]
  /\ UNCHANGED <<enable, enabled, langs, menu, shown, screen, broken>>

Nobody == [online |-> FALSE, level |-> [i \in Items |-> 0], lang |-> Default,
           lang_is_set |-> FALSE]

\* Mutation: the menu stays.
DisconnectKeepsMenu(c) ==
  /\ ~broken /\ Online(c)
  /\ client' = [client EXCEPT ![c] = Nobody]
  /\ screen' = [screen EXCEPT ![c] = Blank]
  /\ UNCHANGED <<enable, enabled, langs, menu, shown, broken>>

Disconnect(c) ==
  /\ ~broken /\ Online(c)
  /\ client' = [client EXCEPT ![c] = Nobody]
  /\ screen' = [screen EXCEPT ![c] = Blank]
  /\ DelMenu(c)
  /\ UNCHANGED <<enable, enabled, langs>>

\* Somebody has gained a level, and ChatAreaMsg tells each player in its language.
Announce ==
  /\ ~broken /\ \E c \in Clients : Online(c)
  /\ broken' = \E c \in Clients : Online(c) /\ Unreadable(c)
  /\ UNCHANGED <<enable, enabled, langs, client, menu, shown, screen>>

\* Upgrades are given and taken elsewhere.
SetUpgradeLevel(c, i, n) ==
  /\ ~broken /\ Online(c) /\ n # client[c].level[i]
  /\ client' = [client EXCEPT ![c].level[i] = n]
  /\ UNCHANGED <<enable, enabled, langs, menu, shown, screen, broken>>

SetItemEnable(i) ==
  /\ ~broken
  /\ enabled' = IF i \in enabled THEN enabled \ {i} ELSE enabled \cup {i}
  /\ UNCHANGED <<enable, langs, client, menu, shown, screen, broken>>

SetEnable ==
  /\ ~broken /\ enable' = ~enable
  /\ UNCHANGED <<enabled, langs, client, menu, shown, screen, broken>>

\* reloadlangs: UnloadLanguages frees them all, and players keep their pointers.
ReloadLanguages(list) ==
  /\ ~broken /\ langs' = list
  /\ client' = [c \in Clients |-> IF Online(c) THEN [client[c] EXCEPT !.lang = Freed]
                                               ELSE client[c]]
  /\ UNCHANGED <<enable, enabled, menu, shown, screen, broken>>

\* LevelShutdown frees players, menus and languages, ServerActivate loads the latter.
LevelChange(list) ==
  /\ ~broken /\ langs' = list
  /\ client' = [c \in Clients |-> Nobody] /\ menu' = [c \in Clients |-> NoMenu]
  /\ shown' = [c \in Clients |-> Blank] /\ screen' = [c \in Clients |-> Blank]
  /\ UNCHANGED <<enable, enabled, broken>>

-----------------------------------------------------------------------------

Init ==
  /\ enable = TRUE /\ enabled = Items /\ broken = FALSE
  /\ langs \in Lists
  /\ client = [c \in Clients |-> Nobody] /\ menu = [c \in Clients |-> NoMenu]
  /\ shown = [c \in Clients |-> Blank] /\ screen = [c \in Clients |-> Blank]

ClientStep(c) ==
  \/ Connect(c) \/ Disconnect(c) \/ Receive(c)
  \/ \E n \in Arguments : Press(c, n)
  \/ \E submenu \in Submenus : ClientCommand(c, submenu) \/ PlayerSay(c, submenu)
  \/ \E i \in Items, n \in 0..MaxLevel : SetUpgradeLevel(c, i, n)

Next ==
  \/ \E c \in Clients : ClientStep(c)
  \/ (\E i \in Items : SetItemEnable(i)) \/ SetEnable \/ Announce
  \/ \E list \in Lists : ReloadLanguages(list) \/ LevelChange(list)

Spec == Init /\ [][Next]_vars

-----------------------------------------------------------------------------
(* Properties.                                                             *)

\* No two lines of a menu share a page and a number, none has the number of Previous
\* or Next, and whoever pages forth from the first page comes by every line:
\* update_options (cssrpg_menu.cpp:57) counts pages by one rule and numbers by
\* another.
EveryLineHasItsPlace ==
  \A c \in Clients :
    LET n == Len(menu[c].lines)
    IN \A k \in 1..n :
         /\ PageIndex(k) <= PageSize
         /\ \A j \in 1..n : j # k => <<Page(j), PageIndex(j)>> # <<Page(k), PageIndex(k)>>
         /\ Page(k) > 0 => LET before == [menu[c] EXCEPT !.page = Page(k) - 1]
                           IN OnPage(before) # {} /\ HasNext(LastOnPage(before), n)

\* Whoever presses a number on a screen that is up to date gets what its text says
\* or nothing: the upgrade of that line is bought, the one that was asked about
\* sold, that language chosen, although upgrades are enabled, disabled, given
\* and taken between the drawing and the press, and other pages are drawn in
\* between.  Only a yes sells or resets.  (Of languages, unless the list was loaded
\* again and is another, or holds one without a name.)
PressDoesWhatItSays ==
  [][\A c \in Clients : \A n \in DOMAIN screen[c] :
       Press(c, n) /\ UpToDate(c) =>
         LET says == screen[c][n]
             level == client[c].level
             gets == client'[c]
         IN CASE says.does = "buy"   -> /\ gets.level \in {level, [level EXCEPT ![says.what] = @ + 1]}
                                        /\ gets.lang = client[c].lang
              [] says.does = "sell"  -> /\ gets.level \in {level, [level EXCEPT ![says.what] = @ - 1]}
                                        /\ gets.lang = client[c].lang
              [] says.does = "reset" -> /\ gets.level \in {level, [i \in Items |-> 0]}
                                        /\ gets.lang = client[c].lang
              [] says.does = "speak" -> /\ gets.level = level
                                        /\ \/ gets.lang = says.what \/ ~enable
                                           \/ [k \in DOMAIN menu[c].lines |-> menu[c].lines[k].what]
                                                # Tail(langs)
              [] OTHER               -> gets = client[c]]_vars

\* A number that an up-to-date screen shows never leads to anything undefined, nor does
\* anything else a client, an administrator or the engine does: only a number that the
\* screen does not show, or a screen that the server has replaced, or a language that
\* reloadlangs freed.  So Previous and Next are shown only where there is a page to
\* draw, whatever was typed, bought or disabled before, and whatever sections a
\* language file lacks, repeats or leaves empty, all its texts are set
\* (cssrpg_menu.cpp:211, 334, 471, 548; cssrpg_textdb.cpp:308, 338).
NothingUndefined ==
  [][broken' /\ ~broken /\ (\A c \in Clients : client[c].lang # Freed) =>
       /\ \E c \in Clients, n \in Arguments : Press(c, n)
       /\ \A c \in Clients : \A n \in DOMAIN screen[c] : Press(c, n) => ~UpToDate(c)]_vars
=============================================================================
