--------------------------- MODULE AccessControl ---------------------------
(***************************************************************************)
(* Who may ask the analyst application for what.  In local-demo mode       *)
(* anyone may; in protected mode a request needs HTTPS, a credential that  *)
(* has not expired and whose role covers the request, and, if a browser    *)
(* may have sent the credential on its own, a trusted origin.              *)
(***************************************************************************)
EXTENDS Integers

CONSTANTS
  Credentials,  (* [principal, role, token, expires], tokens as digests    *)
  Origins       (* browser origins allowed to call                         *)

(* AccessSettings: what a protected configuration may hold.  An origin is  *)
(* a well-formed HTTPS origin here.                                        *)
Roles == {"viewer", "analyst", "admin"}
CredentialsValid ==
  /\ Credentials # {}
  /\ \A c \in Credentials : c.role \in Roles /\ c.expires \in Nat \ {0}
  /\ \A c, d \in Credentials : c # d => c.principal # d.principal /\ c.token # d.token
ASSUME CredentialsAssumption == CredentialsValid

(* A page of any other origin is foreign.                                  *)
ASSUME OriginsAssumption == "foreign" \notin Origins

(* A caller's [secure, token, name, origin]: name is given with basic      *)
(* authentication only, origin is "same" for a same-origin browser request *)
(* without an Origin header.                                               *)
Known(caller, now) ==
  {c \in Credentials : /\ c.token = caller.token
                       /\ caller.name \in {"", c.principal}
                       /\ now < c.expires}
(* What the check takes for a write.  One GET changes the tables and is    *)
(* one; the two exports are not, though a signed store records them.       *)
(* Mutant of Mutates: every GET is taken for a read.                       *)
MethodMutates(method, path) == method \notin {"GET", "HEAD", "OPTIONS"}
Mutates(method, path) == method \notin {"GET", "HEAD", "OPTIONS"} \/ path = "stream"
RoleCovers(role, method, path) ==
  /\ path = "security" => role = "admin"
  /\ Mutates(method, path) => role # "viewer"
(* Basic credentials travel with every browser request to the site.        *)
OriginTrusted(caller, method, path) ==
  Mutates(method, path) /\ caller.name # "" => caller.origin \in Origins \cup {"same"}

(* The principals a request may act as; none of them when it is refused.   *)
Admitted(mode, caller, method, path, now) ==
  IF mode = "local-demo" THEN {[principal |-> "", role |-> "local", token |-> "", expires |-> 0]}
  ELSE {c \in Known(caller, now) : /\ caller.secure
                                   /\ RoleCovers(c.role, method, path)
                                   /\ OriginTrusted(caller, method, path)}
=============================================================================
