----------------------------- MODULE RuleManager -----------------------------
(***************************************************************************)
(* How the rules come about: src/rule_manager.cpp, called by the argument  *)
(* loops of src/main_mt.cpp and src/main_simple.cpp in the order of the    *)
(* command line.                                                           *)
(***************************************************************************)
EXTENDS Rules, RulesFile

CONSTANTS
  IPs,                  \* addresses
  IPStrings, ParseIP,   \* what the user writes -> an address, or NoIP
  NoIP,
  AppNames, AppOf,      \* what the user writes -> nameToAppType()
  DomainStrings,        \* the domains the user writes
  Hostnames,            \* what packets are asked about
  Files,                \* rules files: [entries, length], see RulesFile
  Delays,               \* the values of --throttle-ms
  Sites,                \* well-known sites and the apps they are of: [host, app]
  TakenFor,             \* the hosts known to be taken for another app's -> that app
  MaxCommands           \* bound: calls in a behaviour

ASSUME RuleManagerAssumption ==
  /\ ParseIP \in [IPStrings -> IPs \cup {NoIP}] /\ NoIP \notin IPs
  /\ AppOf \in [AppNames -> AppTypes]
  /\ DomainStrings \subseteq Names /\ Hostnames \subseteq Names
  /\ \A f \in Files : /\ FollowsFormat(f.entries)
                      /\ f.length \in 0..Len(Printed(f.entries))
                      /\ Listed(f, "blocked_ips") \subseteq IPStrings
                      /\ Listed(f, "blocked_apps") \cup Listed(f, "throttled_apps") \subseteq AppNames
                      /\ Listed(f, "blocked_domains") \subseteq Names
  /\ \A s \in Sites : s.host \in Names \ {""} /\ s.app \in AppTypes \ {UNKNOWN}
  /\ TakenFor \in [DOMAIN TakenFor -> AppTypes \ {UNKNOWN}]
  /\ MaxCommands \in Nat

VARIABLES blocked_ips, blocked_apps, blocked_domains, throttled_apps,
          throttle_delay,
          commands,   \* history: how many calls were made
          given       \* history: the rules given, as the user wrote them

vars == <<blocked_ips, blocked_apps, blocked_domains, throttled_apps, throttle_delay, commands, given>>

NoRules == [ips |-> {}, apps |-> {}, domains |-> {}, throttled |-> {}]

Init ==
  /\ blocked_ips = {} /\ blocked_apps = {} /\ blocked_domains = <<>> /\ throttled_apps = {}
  /\ throttle_delay = 10
  /\ commands = 0 /\ given = NoRules

Command == commands < MaxCommands /\ commands' = commands + 1

(* Invalid addresses and unknown names are reported and skipped. *)
ParsedIPs(strings) == {ParseIP[s] : s \in strings} \ {NoIP}
KnownApps(names)   == {AppOf[n] : n \in names} \ {UNKNOWN}

addBlockedIP(str) ==
  /\ Command
  /\ blocked_ips' = blocked_ips \cup ParsedIPs({str})
  /\ given' = [given EXCEPT !.ips = @ \cup {str}]
  /\ UNCHANGED <<blocked_apps, blocked_domains, throttled_apps, throttle_delay>>

addBlockedApp(name) ==
  /\ Command
  /\ blocked_apps' = blocked_apps \cup KnownApps({name})
  /\ given' = [given EXCEPT !.apps = @ \cup {name}]
  /\ UNCHANGED <<blocked_ips, blocked_domains, throttled_apps, throttle_delay>>

Lowered(domains) == [i \in DOMAIN domains |-> Lower[domains[i]]]

addBlockedDomain(domain) ==
  /\ Command
  /\ blocked_domains' = blocked_domains \o Lowered(<<domain>>)
  /\ given' = [given EXCEPT !.domains = @ \cup {domain}]
  /\ UNCHANGED <<blocked_ips, blocked_apps, throttled_apps, throttle_delay>>

addThrottledApp(name) ==
  /\ Command
  /\ throttled_apps' = throttled_apps \cup KnownApps({name})
  /\ given' = [given EXCEPT !.throttled = @ \cup {name}]
  /\ UNCHANGED <<blocked_ips, blocked_apps, blocked_domains, throttle_delay>>

setThrottleDelay(ms) ==
  /\ Command
  /\ throttle_delay' = ms
  /\ UNCHANGED <<blocked_ips, blocked_apps, blocked_domains, throttled_apps, given>>

FileGiven(f) ==
  [ips |-> given.ips \cup Listed(f, "blocked_ips"), apps |-> given.apps \cup Listed(f, "blocked_apps"),
   domains |-> given.domains \cup Listed(f, "blocked_domains"),
   throttled |-> given.throttled \cup Listed(f, "throttled_apps")]

(* What the scan finds in each file. *)
Scanned ==
  [f \in Files |-> LET array(key) == extractStringArray(Text(f), key)
                       set(key)   == {array(key)[i] : i \in DOMAIN array(key)}
                   IN [ips |-> set("blocked_ips"), apps |-> set("blocked_apps"), throttled |-> set("throttled_apps"),
                       domains |-> array("blocked_domains"), delay |-> extractInt(Text(f), "throttle_delay_ms")]]

(* A delay that is absent or not positive leaves the old one. *)
loadFromJSON(f) ==
  LET content == Scanned[f] IN
  /\ Command
  /\ blocked_ips' = blocked_ips \cup ParsedIPs(content.ips)
  /\ blocked_apps' = blocked_apps \cup KnownApps(content.apps)
  /\ blocked_domains' = blocked_domains \o Lowered(content.domains)
  /\ throttled_apps' = throttled_apps \cup KnownApps(content.throttled)
  /\ throttle_delay' = IF content.delay > 0 THEN content.delay ELSE throttle_delay
  /\ given' = FileGiven(f)

(* The command line has been read; the rules stay as they are. *)
Loaded == UNCHANGED vars

Next ==
  \/ \E s \in IPStrings : addBlockedIP(s)
  \/ \E n \in AppNames : addBlockedApp(n) \/ addThrottledApp(n)
  \/ \E d \in DomainStrings : addBlockedDomain(d)
  \/ \E ms \in Delays : setThrottleDelay(ms)
  \/ \E f \in Files : loadFromJSON(f)
  \/ Loaded

Spec == Init /\ [][Next]_vars

-----------------------------------------------------------------------------
rules == [ips |-> blocked_ips, apps |-> blocked_apps, domains |-> blocked_domains,
          throttled |-> throttled_apps]

(* The name and the domains above it: what a domain rule may be to hit it. *)
Parents(name) ==
  {name} \cup {SubSeq(name, i + 1, Len(name)) : i \in {i \in 1..Len(name) : SubSeq(name, i, i) = "."}}

(* A packet is blocked iff one of the rules the user gave, on the command  *)
(* line or in a file, in whatever order, case and number, covers its       *)
(* address, its app, or its hostname or a domain above it; an app is       *)
(* throttled iff he named it.  Of a rules file that was cut short every    *)
(* list counts as a whole or not at all.                                   *)
DecisionFollowsTheRulesGiven ==
  \A app \in AppTypes :
    /\ isThrottled(rules, app) <=> app # UNKNOWN /\ \E n \in given.throttled : AppOf[n] = app
    /\ \A ip \in IPs, sni \in Hostnames :
         isBlocked(rules, ip, app, sni) <=>
           \/ \E s \in given.ips : ParseIP[s] = ip
           \/ app # UNKNOWN /\ \E n \in given.apps : AppOf[n] = app
           \/ sni # "" /\ \E d \in given.domains : Lower[d] \in Parents(Lower[sni])

(* The app whose rule is to reach a site: its own, unless the site is one  *)
(* of those known to be taken for another.                                 *)
AppTreatedAs(s) == IF s.host \in DOMAIN TakenFor THEN TakenFor[s.host] ELSE s.app

(* With only application rules given, a site is blocked iff the user named *)
(* its application: the substrings that sniToAppType() tests one after the *)
(* other shadow no other site than those in TakenFor, which the rule for   *)
(* that other application blocks and the one for their own does not.       *)
AppRuleBlocksItsSites ==
  given.ips = {} /\ given.domains = {} =>
    \A s \in Sites, ip \in IPs :
      isBlocked(rules, ip, AppOfName[s.host], s.host)
        <=> \E n \in given.apps : AppOf[n] = AppTreatedAs(s)

-----------------------------------------------------------------------------
(* Statements the documentation makes. *)

(* generate_test_pcap.py:8 "expected SNI/app classification for accuracy   *)
(* testing": every site of the capture is taken for its own application.   *)
EverySiteIsItsApp == \A s \in Sites : AppOfName[s.host] = s.app

(* rule_manager.h:8 "block connections whose SNI matches a substring". *)
DomainRuleIsSubstring ==
  \A d \in given.domains, sni \in Hostnames \ {""}, ip \in IPs :
    ContainsText(Lower[sni], Lower[d]) => isBlocked(rules, ip, UNKNOWN, sni)
=============================================================================
