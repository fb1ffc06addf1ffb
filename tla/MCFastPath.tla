----------------------------- MODULE MCFastPath -----------------------------
(* FastPath with three flows in a table of two: one whose ports suggest    *)
(* HTTPS and which is measured, one for DNS and one from a blocked         *)
(* address.                                                                *)
EXTENDS FastPath

MCNames  == {"", "www.youtube.com", "www.google.com", "example.org", "api.tiktok.com", "WWW.YouTube.com"}
MCLower  == [n \in MCNames |-> IF n = "WWW.YouTube.com" THEN "www.youtube.com" ELSE n]
MCTuples == {"web", "dns", "bad"}
MCSrcIP  == [t \in MCTuples |-> IF t = "bad" THEN "blocked_ip" ELSE "client"]
MCHint   == [t \in MCTuples |-> IF t = "web" THEN "HTTPS" ELSE IF t = "dns" THEN "DNS" ELSE UNKNOWN]

MCRules == [ips |-> {"blocked_ip"}, apps |-> {"YOUTUBE", "HTTPS"}, domains |-> <<"tiktok.com">>,
            throttled |-> {"HTTPS"}]
NoRules == [ips |-> {}, apps |-> {}, domains |-> <<>>, throttled |-> {}]

Measure(t, h, flags, size, entropy) == [tuple |-> t, host |-> h, flags |-> flags, size |-> size, entropy |-> entropy]
MCPackets ==
  {Measure("web", NoPayload, {"SYN"}, 60, 0), Measure("web", NoPayload, {"RST"}, 60, 0),
   Measure("web", NoHost, {}, 9000, 7900), Measure("web", "WWW.YouTube.com", {}, 600, 5000),
   Measure("web", "www.google.com", {"FIN"}, 600, 5000),
   Measure("dns", "api.tiktok.com", {}, 100, 0), Measure("bad", "www.google.com", {}, 100, 0)}
=============================================================================
