---------------------------- MODULE MCRuleManager ----------------------------
(* RuleManager with names chosen around one domain, and with all sites     *)
(* that the TLS and HTTP flows of the repository's own test capture go to  *)
(* (APPS in scripts/generate_test_pcap.py), each with the app that is its  *)
(* ground truth, and a video server.                                       *)
EXTENDS RuleManager, TLC

TestSites == {
  [host |-> "www.youtube.com", app |-> "YOUTUBE"],   [host |-> "www.netflix.com", app |-> "NETFLIX"],
  [host |-> "www.tiktok.com", app |-> "TIKTOK"],     [host |-> "www.facebook.com", app |-> "FACEBOOK"],
  [host |-> "www.instagram.com", app |-> "INSTAGRAM"], [host |-> "www.google.com", app |-> "GOOGLE"],
  [host |-> "www.github.com", app |-> "GITHUB"],     [host |-> "discord.com", app |-> "DISCORD"],
  [host |-> "www.twitch.tv", app |-> "TWITCH"],      [host |-> "www.twitter.com", app |-> "TWITTER"],
  [host |-> "www.whatsapp.com", app |-> "WHATSAPP"], [host |-> "r1.googlevideo.com", app |-> "YOUTUBE"],
  [host |-> "www.reddit.com", app |-> "REDDIT"],     [host |-> "example.com", app |-> "HTTP"],
  [host |-> "api.example.com", app |-> "HTTP"],      [host |-> "cdn.example.org", app |-> "HTTP"]}

(* "t.co" is a part of the first, and a name without an app is HTTPS, *)
(* whatever the protocol.                                             *)
Mistaken == "www.reddit.com" :> "TWITTER"
            @@ [n \in {"example.com", "api.example.com", "cdn.example.org"} |-> "HTTPS"]

MixedCase == [n \in {"TikTok.com", "WWW.TIKTOK.COM"} |->
                IF n = "TikTok.com" THEN "tiktok.com" ELSE "www.tiktok.com"]

MCHostnames == {"", "com", "www.tiktok.com", "fake-tiktok.com", "tiktok.com.net", ".tiktok.com"}
               \cup DOMAIN MixedCase

MCNames == MCHostnames \cup {"tiktok", "tiktok.com"} \cup {s.host : s \in TestSites}

MCLower == [n \in MCNames |-> IF n \in DOMAIN MixedCase THEN MixedCase[n] ELSE n]

MCParseIP  == [s \in {"10.0.0.1", "10.0.0.300"} |-> IF s = "10.0.0.1" THEN "ip1" ELSE "none"]
MCAppOf    == "YouTube" :> "YOUTUBE" @@ "Google" :> "GOOGLE" @@ "Twitter" :> "TWITTER" @@ "Reddit" :> "REDDIT"
              @@ "HTTP" :> "HTTP" @@ "HTTPS" :> "HTTPS" @@ "MySpace" :> UNKNOWN
MCIPStrings == DOMAIN MCParseIP
MCAppNames  == DOMAIN MCAppOf

(* The repository's rules.json in small, and one in another order that     *)
(* lacks a key, both cut short at every token.                             *)
Words(k, w)  == [key |-> k, words |-> w]
Number(k, n) == [key |-> k, number |-> n]
MCStoi == [n \in {"0", "5"} |-> IF n = "5" THEN 5 ELSE 0]
Contents == {
  <<Words("blocked_ips", <<"10.0.0.300", "10.0.0.1">>), Words("blocked_apps", <<"MySpace", "Google">>),
    Words("blocked_domains", <<"tiktok.com", "TikTok.com">>), Words("throttled_apps", <<"YouTube">>),
    Number("throttle_delay_ms", "5")>>,
  <<Number("throttle_delay_ms", "0"), Words("throttled_apps", <<>>), Words("blocked_domains", <<".tiktok.com">>),
    Words("blocked_apps", <<"YouTube">>)>>}
MCFiles == UNION {{[entries |-> c, length |-> n] : n \in 0..Len(Printed(c))} : c \in Contents}
=============================================================================
