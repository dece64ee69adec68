---------------------------- MODULE MCWorkbench ----------------------------
(* Small deployments of the workbench: each scene has the actors whose     *)
(* interleaving it is about.                                               *)
EXTENDS Workbench

CONSTANTS a, b, h, g   (* two sources, two destinations *)

Raised(detector, type, subtype, src, dst, start, end, flows) ==
  [id |-> <<detector, src, start>>, type |-> type, subtype |-> subtype, cool |-> <<>>, src |-> src,
   dst |-> dst, start |-> start, end |-> end, flows |-> flows, confidence |-> 80, names |-> {}]
(* A flood's id names its target, not its source.                          *)
OnTarget(alert) == [alert EXCEPT !.id = <<"ddos", alert.dst, alert.start>>]
Flood  == OnTarget(Raised("ddos", "denial_of_service", "syn_flood", a, h, 0, 2, {1, 2}))
Scan   == Raised("recon", "reconnaissance", "vertical_scan", a, h, 1, 3, {2, 3})
Beacon == Raised("c2", "command_and_control", "periodic", a, h, 4, 6, {4, 5})
Leak   == Raised("exfil", "data_exfiltration", "volume", b, g, 1, 2, {6})
Surge(src) == OnTarget(Raised("ddos", "denial_of_service", "udp_flood", src, g, 5, 6, {7}))

(* The flood turns out to be the scan; the beacon and the surge start an   *)
(* incident of their own when the capture begins after the scan; another   *)
(* sensor sees the same surge come from another source.                    *)
MCReplays ==
  [whole |-> [live |-> <<Flood, Scan, Beacon>>, last |-> <<>>],
   part  |-> [live |-> <<Beacon>>, last |-> <<Surge(a)>>],
   other |-> [live |-> <<Leak>>, last |-> <<Scan>>],
   feed  |-> [live |-> <<Scan, Surge(b)>>, last |-> <<>>]]
MCLegacy ==
  [incidents |-> {[id |-> <<a, 1>>, src |-> a, first |-> 1, last |-> 3, risk |-> 50,
                   members |-> {Scan.id}, status |-> "open", conclusion |-> {}]},
   alerts |-> {Scan},
   feedback |-> {[incident |-> <<a, 1>>, disposition |-> "benign", at |-> 0, analyst |-> "file"]}]

Cred(principal, role, token, expires) ==
  [principal |-> principal, role |-> role, token |-> token, expires |-> expires]
MCCredentials == {Cred("vera", "viewer", "t1", 9), Cred("anna", "analyst", "t2", 1), Cred("alan", "admin", "t3", 9)}
Caller(secure, token, name, origin) == [secure |-> secure, token |-> token, name |-> name, origin |-> origin]
Local == {Caller(FALSE, "", "", "none")}
Staff == {Caller(TRUE, "t1", "", "none"), Caller(TRUE, "t2", "", "none"), Caller(TRUE, "t3", "alan", "same"),
          Caller(TRUE, "t3", "alan", "foreign"), Caller(FALSE, "t3", "", "none"), Caller(TRUE, "t2", "alan", "own")}

Scene(mode, signed, callers, kinds, replays, jobs_, reviews_) ==
  [mode |-> mode, signed |-> signed, callers |-> callers, kinds |-> kinds, replays |-> replays,
   jobs |-> jobs_, reviews |-> reviews_, legacy |-> FALSE, feed |-> None, backups |-> FALSE,
   statuses |-> {"resolved", "investigating"}, dispositions |-> {}, ticks |-> 0]
Demo      == [Scene("local-demo", FALSE, Local, {"upload"}, {"whole", "part"}, 2, 2) EXCEPT !.legacy = TRUE]
Watching  == Scene("local-demo", FALSE, Local, {"upload", "stream"}, {"whole", "other"}, 2, 2)
Combining == Scene("local-demo", TRUE, Local, {"correlate", "upload", "export"}, {"whole", "part"}, 2, 2)
Protected == [Scene("required", TRUE, Staff, {"upload", "stream", "export"}, {"other"}, 1, 2)
             EXCEPT !.statuses = {"resolved"}, !.dispositions = {"benign"}, !.ticks = 1, !.legacy = TRUE]
Operating == [Scene("required", TRUE, {Caller(TRUE, "t3", "", "none")}, {"upload"}, {"part"}, 1, 2)
              EXCEPT !.statuses = {"resolved"}, !.feed = "feed", !.backups = TRUE]
MCSettings == [demo |-> Demo, watching |-> Watching, combining |-> Combining, protected |-> Protected,
               operating |-> Operating]
MCScenes == DOMAIN MCSettings
=============================================================================
