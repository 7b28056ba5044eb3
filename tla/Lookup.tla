------------------------------- MODULE Lookup -------------------------------
(* How the plugin finds whom an administrator's command, a client's command  *)
(* or a game event speaks of: by user ID, by SteamID, by name.  A text is a  *)
(* sequence of characters; the assumptions check each search against a plain *)
(* statement of what it finds, over all short texts and small servers.       *)
EXTENDS Integers, Sequences, SequencesExt

\* A letter and its capital, another letter, a digit.
Characters == {"a", "A", "b", "1"}
tolower(char) == IF char = "A" THEN "a" ELSE char
Texts(n) == UNION {[1..k -> Characters] : k \in 0..n}

\* The number a text begins with, of which "1" is the only digit; 0 if it begins with none.
atoi(text) ==
  LET k == SelectInSeq(text, LAMBDA char : char # "1")
      digits == IF k = 0 THEN text ELSE SubSeq(text, 1, k - 1)
  IN FoldLeft(LAMBDA n, char : 10 * n + 1, 0, digits)

\* Equal but for capitals; the empty text equals nothing.
istrcmp(s, t) ==
  /\ s # <<>> /\ t # <<>> /\ Len(s) = Len(t)
  /\ \A k \in DOMAIN s : tolower(s[k]) = tolower(t[k])

\* One pass over the text, ahead by a character of `part' whenever that is met.
istrstr(text, part) ==
  /\ part # <<>>
  /\ LET met == FoldLeft(LAMBDA k, char : IF k < Len(part) /\ tolower(part[k + 1]) = tolower(char)
                                          THEN k + 1 ELSE k, 0, text)
     IN met = Len(part)

\* What an entry of the server's clients may hold, and the first that passes a test.
Nobody == [userid |-> 0, steamid |-> <<>>, name |-> <<>>]
OnServer(server) == {i \in DOMAIN server : server[i] # Nobody}
First(S) == IF S = {} THEN -1 ELSE CHOOSE i \in S : \A j \in S : i <= j

UserIDtoIndex(server, userid) == First({i \in OnServer(server) : server[i].userid = userid})

FindPlayer(server, str) ==
  IF atoi(str) # 0 THEN UserIDtoIndex(server, atoi(str))
  ELSE First({i \in OnServer(server) : istrcmp(str, server[i].steamid) \/ istrstr(server[i].name, str)})

\* The searches among the nodes start from the last one; db_delplayer's are exact.
LastOf(S) == IF S = {} THEN -1 ELSE CHOOSE i \in S : \A j \in S : i >= j
UserIDtoRPGPlayer(server, userid) == LastOf({i \in OnServer(server) : server[i].userid = userid})
SteamIDtoRPGPlayer(server, steamid) == LastOf({i \in OnServer(server) : server[i].steamid = steamid})
NametoRPGPlayer(server, name) == LastOf({i \in OnServer(server) : server[i].name = name})

-----------------------------------------------------------------------------
(* steamid_check, of a text that begins with STEAM_ and goes on with `rest'. *)

Classes == {"digit", "colon", "other"}

\* The fields read so far; 3 when the third has ended with a colon, after which nothing
\* is read, 4 when a character was neither a digit nor a colon.
FieldAfter(fields, class) ==
  IF fields >= 3 \/ class = "digit" THEN fields
  ELSE IF class = "colon" THEN fields + 1 ELSE 4

steamid_check(rest) == Len(rest) >= 4 /\ FoldLeft(FieldAfter, 0, rest) \in {2, 3}

-----------------------------------------------------------------------------

Servers ==
  LET clients == {Nobody} \cup
        [userid : {1, 11}, steamid : {<<"b">>, <<"a", "b">>}, name : {<<"a">>, <<"b", "A">>, <<"1", "a">>}]
  IN {s \in [1..2 -> clients] : s[1].userid = s[2].userid => s[1] = Nobody}

\* A name is found by any of its characters in their order, capitals or not: by
\* more than its parts.
ASSUME NameMatches ==
  \A text \in Texts(3), part \in Texts(2) \ {<<>>} :
    istrstr(text, part) <=>
      \E at \in [DOMAIN part -> DOMAIN text] :
        \A j, k \in DOMAIN part : (j < k => at[j] < at[k]) /\ istrcmp(<<text[at[j]]>>, <<part[j]>>)

\* A text that begins with a number finds the client with that user ID and nobody
\* else, whatever the names; another finds nobody only if it fits nobody.
ASSUME FoundFits ==
  \A server \in Servers, str \in Texts(2) :
    LET i == FindPlayer(server, str)
        fits == {j \in OnServer(server) :
                   IF atoi(str) # 0 THEN server[j].userid = atoi(str)
                   ELSE istrcmp(server[j].steamid, str) \/ istrstr(server[j].name, str)}
    IN /\ i = -1 <=> fits = {}
       /\ i # -1 => i \in fits

\* No two clients have one user ID: events and commands that name one mean the same client.
ASSUME OneUserID ==
  \A server \in Servers, userid \in {1, 11} :
    /\ UserIDtoIndex(server, userid) = UserIDtoRPGPlayer(server, userid)
    /\ \A i \in OnServer(server) : UserIDtoIndex(server, server[i].userid) = i

\* What passes for a SteamID: numbers, possibly empty, and two colons, then perhaps a
\* third colon and anything.  STEAM_ID_LAN and STEAM_ID_PENDING do not.
ASSUME SteamIDs ==
  \A n \in 0..7 : \A rest \in [1..n -> Classes] :
    steamid_check(rest) <=>
      /\ n >= 4
      /\ \E third \in 1..(n + 1) :
           /\ third <= n => rest[third] = "colon"
           /\ LET head == SubSeq(rest, 1, third - 1)
              IN /\ Len(SelectSeq(head, LAMBDA class : class = "colon")) = 2
                 /\ "other" \notin ToSet(head)
=============================================================================
