------------------------------ MODULE RulesFile ------------------------------
(***************************************************************************)
(* The scan of a rules file, RuleManager::loadFromJSON of                  *)
(* src/rule_manager.cpp.  A text is a sequence of tokens: punctuation,     *)
(* quotes, and the words between them.  The scan knows no grammar: it      *)
(* looks for a key anywhere, and from there for the next bracket.          *)
(***************************************************************************)
EXTENDS Naturals, Sequences

CONSTANTS Stoi   \* the words that are numbers -> their values

Quote == "'"
Quoted(word) == <<Quote, word, Quote>>

-----------------------------------------------------------------------------
(* The format: entries [key, words] in any order, words being a list, or   *)
(* [key, number].  A file may have been cut short.  The scan would take a  *)
(* word that is spelt like a key for the key.                              *)
Marks == {"{", "}", "[", "]", ":", ",", Quote}
Lists == {"blocked_ips", "blocked_apps", "blocked_domains", "throttled_apps"}
Plain == STRING \ (Marks \cup Lists)

FollowsFormat(entries) ==
  /\ entries \in Seq({entries[i] : i \in DOMAIN entries})
  /\ \A i \in DOMAIN entries :
       LET e == entries[i] IN
       /\ e.key \in STRING \ Marks
       /\ IF "words" \in DOMAIN e THEN e.words \in Seq(Plain) ELSE e.key \notin Lists /\ e.number \in Plain
  /\ \A i, j \in DOMAIN entries : entries[i].key = entries[j].key => i = j

List(words) ==
  LET n == Len(words)
      four(k) == <<Quote, words[k], Quote, IF k < n THEN "," ELSE "]">>
  IN <<"[">> \o IF n = 0 THEN <<"]">> ELSE [x \in 1..(4 * n) |-> four((x + 3) \div 4)[1 + ((x + 3) % 4)]]

Value(e) == IF "words" \in DOMAIN e THEN List(e.words) ELSE <<e.number>>

PrintedTo(entries, n) ==
  LET upTo[i \in 0..Len(entries)] ==
        IF i = 0 THEN <<>>
        ELSE upTo[i - 1] \o (<<IF i = 1 THEN "{" ELSE ",", Quote, entries[i].key, Quote, ":">> \o Value(entries[i]))
  IN upTo[n]

Printed(entries) == PrintedTo(entries, Len(entries)) \o IF entries = <<>> THEN <<"{", "}">> ELSE <<"}">>
Text(f)          == SubSeq(Printed(f.entries), 1, f.length)

(* What a reader of JSON would take from it: the entries that are whole. *)
Whole(f)       == {f.entries[i] : i \in {i \in DOMAIN f.entries : Len(PrintedTo(f.entries, i)) <= f.length}}
Listed(f, key) == UNION {{e.words[i] : i \in DOMAIN e.words} : e \in {e \in Whole(f) : e.key = key}}

-----------------------------------------------------------------------------
npos == 0
First(positions)      == IF positions = {} THEN npos ELSE CHOOSE i \in positions : \A j \in positions : i <= j
find(text, what, pos) == First({i \in pos..(Len(text) - Len(what) + 1) :
                                  SubSeq(text, i, i + Len(what) - 1) = what})

(* Behind the key, and the next c behind that. *)
Behind(text, key, c) ==
  LET pos == find(text, Quoted(key), 1) IN
  IF pos = npos THEN npos ELSE find(text, <<c>>, pos + 3)

(* What is between a quote and the next, again and again up to the end. *)
WordsIn(text, start, end) ==
  LET q1(i) == find(text, <<Quote>>, i)
      q2(i) == find(text, <<Quote>>, q1(i) + 1)
      from[i \in start..(end + 1)] ==
        IF q1(i) \in i..(end - 1) /\ q2(i) \in i..end THEN <<text[q1(i) + 1]>> \o from[q2(i) + 1] ELSE <<>>
  IN from[start]

(* Mutant: a list without an end ends with the text. *)
ArrayToTheEnd(text, key) ==
  LET start == Behind(text, key, "[")
      close == IF start = npos THEN npos ELSE find(text, <<"]">>, start)
  IN IF start = npos THEN <<>> ELSE WordsIn(text, start + 1, IF close = npos THEN Len(text) ELSE close)

(* The words of a list that is closed. *)
extractStringArray(text, key) ==
  LET start == Behind(text, key, "[")
      end   == IF start = npos THEN npos ELSE find(text, <<"]">>, start)
  IN IF end = npos THEN <<>> ELSE WordsIn(text, start + 1, end)

(* The number behind the colon; 0 stands for none, as for one that is not  *)
(* positive.                                                               *)
extractInt(text, key) ==
  LET colon == Behind(text, key, ":") IN
  IF colon # npos /\ colon < Len(text) /\ text[colon + 1] \in DOMAIN Stoi THEN Stoi[text[colon + 1]] ELSE 0
=============================================================================
