------------------------------ MODULE MCEngines ------------------------------
(* The engines on three flows whose ports suggest HTTPS and DNS, and HTTP  *)
(* to one engine only, and one that comes from a blocked address.          *)
EXTENDS Engines

MCNames  == {"", "www.youtube.com", "www.google.com", "example.org", "api.tiktok.com", "WWW.YouTube.com"}
MCLower  == [n \in MCNames |-> IF n = "WWW.YouTube.com" THEN "www.youtube.com" ELSE n]
MCTuples == {"web", "dns", "alt", "bad"}
MCSrcIP  == [t \in MCTuples |-> IF t = "bad" THEN "blocked_ip" ELSE "client"]
MCPortsOf == [t \in MCTuples |-> CASE t = "web" -> [src |-> 40000, dst |-> 443] [] t = "dns" -> [src |-> 53, dst |-> 40000]
                                  [] t = "alt" -> [src |-> 8080, dst |-> 40000] [] OTHER -> [src |-> 40000, dst |-> 9]]

MCRules == [ips |-> {"blocked_ip"}, apps |-> {"YOUTUBE", "DNS"}, domains |-> <<"tiktok.com">>, throttled |-> {"GOOGLE"}]

Packet(t, h) == [tuple |-> t, host |-> h, flags |-> {}, size |-> 100, entropy |-> 0]
MCPackets == {Packet("web", h) : h \in {NoPayload, NoHost, "WWW.YouTube.com", "www.google.com", "api.tiktok.com"}}
             \cup {Packet("dns", h) : h \in {NoPayload, NoHost, "example.org"}}
             \cup {Packet("alt", "WWW.YouTube.com"), Packet("bad", "www.google.com")}
=============================================================================
