-------------------------------- MODULE Rules --------------------------------
(***************************************************************************)
(* The decisions every packet goes through, as operators: isBlocked() and  *)
(* isThrottled() of src/rule_manager.cpp and sniToAppType() of             *)
(* src/types.cpp.  A hostname is a string, that is, a sequence of          *)
(* characters; Lower is std::tolower over a whole name.                    *)
(***************************************************************************)
EXTENDS Naturals, Sequences

CONSTANTS Names,   \* the hostnames and domain rules considered, "" included
          Lower    \* name -> the name in lower case

ASSUME RulesAssumption ==
  /\ Names \subseteq STRING /\ "" \in Names
  /\ Lower \in [Names -> Names]
  /\ \A n \in Names : Lower[Lower[n]] = Lower[n]

UNKNOWN == "UNKNOWN"

AppTypes == {UNKNOWN, "HTTP", "HTTPS", "DNS", "GOOGLE", "YOUTUBE", "FACEBOOK", "GITHUB",
             "TIKTOK", "NETFLIX", "TWITTER", "INSTAGRAM", "DISCORD", "WHATSAPP", "TWITCH", "REDDIT"}

(* Mutant: a plain suffix comparison. *)
SuffixMatches(sni, domain) ==
  /\ Len(sni) >= Len(domain)
  /\ SubSeq(sni, Len(sni) - Len(domain) + 1, Len(sni)) = domain

domainMatches(sni, domain) ==
  LET pos == Len(sni) - Len(domain) IN
  \/ sni = domain
  \/ /\ Len(sni) > Len(domain)
     /\ SubSeq(sni, pos, pos) = "."
     /\ SubSeq(sni, pos + 1, Len(sni)) = domain

(* rules is a record [ips, apps, domains, throttled]. *)
isBlocked(rules, src_ip, app, sni) ==
  \/ src_ip \in rules.ips
  \/ app # UNKNOWN /\ app \in rules.apps
  \/ /\ sni # ""
     /\ \E i \in DOMAIN rules.domains : domainMatches(Lower[sni], rules.domains[i])

isThrottled(rules, app) == app # UNKNOWN /\ app \in rules.throttled

-----------------------------------------------------------------------------
(* std::string::find *)
ContainsText(text, part) ==
  \E i \in 0..(Len(text) - Len(part)) : SubSeq(text, i + 1, i + Len(part)) = part

(* The tests of sniToAppType in the order they are made.  Substrings that  *)
(* contain another one of their row are left out.                          *)
Signatures == <<
  [app |-> "YOUTUBE",   parts |-> {"youtube", "ytimg", "googlevideo", "yt3.ggpht"}],
  [app |-> "NETFLIX",   parts |-> {"netflix", "nflxso", "nflximg", "nflxext"}],
  [app |-> "TIKTOK",    parts |-> {"tiktok", "ttwstatic", "muscdn", "byteoversea"}],
  [app |-> "INSTAGRAM", parts |-> {"instagram"}],
  [app |-> "FACEBOOK",  parts |-> {"facebook", "fbcdn", "fbsbx"}],
  [app |-> "TWITTER",   parts |-> {"twitter", "twimg", "t.co"}],
  [app |-> "DISCORD",   parts |-> {"discord"}],
  [app |-> "WHATSAPP",  parts |-> {"whatsapp"}],
  [app |-> "TWITCH",    parts |-> {"twitch", "jtvnw"}],
  [app |-> "REDDIT",    parts |-> {"reddit", "redd.it"}],
  [app |-> "GITHUB",    parts |-> {"github"}],
  [app |-> "GOOGLE",    parts |-> {"google", "gstatic", "gvt1.com"}] >>

Hits(name) == {i \in DOMAIN Signatures : \E p \in Signatures[i].parts : ContainsText(name, p)}

(* Mutant: the last test that succeeds decides. *)
LastHit(hits) == CHOOSE i \in hits : \A j \in hits : j <= i

FirstHit(hits) == CHOOSE i \in hits : \A j \in hits : i <= j

sniToAppType(sni) ==
  LET hits == Hits(Lower[sni]) IN
  IF sni = "" THEN UNKNOWN
  ELSE IF hits = {} THEN "HTTPS"
  ELSE Signatures[FirstHit(hits)].app

(* The same as a table. *)
AppOfName == [n \in Names |-> sniToAppType(n)]
=============================================================================
