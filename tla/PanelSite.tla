----------------------------- MODULE PanelSite ------------------------------
(* The nginx site of the panel, and the two requests that edit it while the  *)
(* panel runs: the domain is applied by app/panel_ops.py itself, which tests  *)
(* the file it has written and puts the old text back when nginx refuses it;  *)
(* a certificate is installed by certbot, which edits the same file.  No lock *)
(* covers the file, and a write empties it first and then fills it.  The      *)
(* module is a component of ReleaseUpdate, where the updater of the panel     *)
(* reads and writes the file too.                                             *)
EXTENDS Naturals

CONSTANTS Thread,        \* request threads of the panel
          Domain,        \* domain names an administrator enters
          Refused,       \* those nginx does not accept as a server name
          None,          \* no name, no certificate, no file
          Blank,         \* the text of an emptied file
          MaxRequests,   \* bound on requests
          MaxFaults      \* bound on commands that fail

Name == Domain \union {None}
Site == [name : Name, cert : Name]
Text == Site \union {Blank}

ASSUME PanelSiteAssumption ==
    /\ Refused \subseteq Domain
    /\ None \notin Domain
    /\ Blank \notin Site \union {None}
    /\ MaxRequests \in Nat /\ MaxFaults \in Nat

VARIABLES site,          \* the file: the first server_name and the certificate
          live,          \* what nginx serves
          panelDomain,   \* the setting panel_domain
          op,            \* what each thread is doing
          requests,      \* requests begun
          faults         \* commands that have failed

panelVars == <<site, live, panelDomain, op, requests, faults>>

\* The site of a new installation.
Template == [name |-> None, cert |-> None]

Op == [pc : {"idle", "write", "fill", "validate", "undo", "refill", "reload",
             "certbot", "record"},
       domain : Name, original : Text \union {None}]
Idle == [pc |-> "idle", domain |-> None, original |-> None]

InFlight == {t \in Thread : op[t].pc # "idle"}

PanelInit ==
    /\ site \in {None, Template} \union {[name |-> d, cert |-> d] : d \in Domain \ Refused}
    /\ live = site
    /\ panelDomain = IF site = None THEN None ELSE site.name
    /\ op = [t \in Thread |-> Idle]
    /\ requests = 0 /\ faults = 0

\* nginx -t; a reload by systemd makes the same test and keeps the old
\* configuration when it fails.  Nothing is wrong with an empty file.
Accepted(s) == s # None /\ (s = Blank \/ s.name \notin Refused)

Fault == faults < MaxFaults /\ faults' = faults + 1

Goes(t, pc) == op' = [op EXCEPT ![t].pc = pc]
Ends(t) == op' = [op EXCEPT ![t] = Idle]

-----------------------------------------------------------------------------
(* apply_domain.                                                             *)

BeginApply(t, d) ==
    /\ op[t].pc = "idle" /\ requests < MaxRequests
    /\ site # None
    /\ op' = [op EXCEPT ![t] = [pc |-> "write", domain |-> d, original |-> site]]
    /\ requests' = requests + 1
    /\ UNCHANGED <<site, live, panelDomain, faults>>

\* Only the first server_name is replaced: a certificate stays where it is.  In an
\* empty text there is nothing to replace.
Renamed(original, d) == IF original = Blank THEN Blank ELSE [original EXCEPT !.name = d]

\* write_text opens the file, which empties it: the new text, or the old one again ...
Empty(t) ==
    /\ op[t].pc \in {"write", "undo"}
    /\ site' = Blank
    /\ Goes(t, IF op[t].pc = "write" THEN "fill" ELSE "refill")
    /\ UNCHANGED <<live, panelDomain, requests, faults>>

\* ... and writes it.
WriteSite(t) ==
    /\ op[t].pc = "fill"
    /\ site' = Renamed(op[t].original, op[t].domain)
    /\ Goes(t, "validate")
    /\ UNCHANGED <<live, panelDomain, requests, faults>>

\* No space is left on the disk: the request ends without an answer of its own.
WriteFails(t) ==
    /\ op[t].pc \in {"write", "fill", "undo", "refill"} /\ Fault
    /\ Ends(t)
    /\ UNCHANGED <<site, live, panelDomain, requests>>

Validate(t) ==
    /\ op[t].pc = "validate"
    /\ IF Accepted(site) THEN live' = site /\ Goes(t, "record")
                         ELSE live' = live /\ Goes(t, "undo")
    /\ UNCHANGED <<site, panelDomain, requests, faults>>

\* A test or a reload that fails by itself, or that takes longer than its timeout.
ValidateFails(t) ==
    /\ op[t].pc = "validate" /\ Fault
    /\ live' \in {live} \union {s \in {site} : Accepted(s)}
    /\ Goes(t, "undo")
    /\ UNCHANGED <<site, panelDomain, requests>>

\* Mutant of Undo: the refused text is written again.
UndoNot(t) ==
    /\ op[t].pc = "refill"
    /\ site' = Renamed(op[t].original, op[t].domain)
    /\ Goes(t, "reload")
    /\ UNCHANGED <<live, panelDomain, requests, faults>>

Undo(t) ==
    /\ op[t].pc = "refill"
    /\ site' = op[t].original
    /\ Goes(t, "reload")
    /\ UNCHANGED <<live, panelDomain, requests, faults>>

\* The request is answered with the error, whatever becomes of this reload.
ReloadOriginal(t) ==
    /\ op[t].pc = "reload"
    /\ \/ live' = (IF Accepted(site) THEN site ELSE live) /\ UNCHANGED faults
       \/ Fault /\ UNCHANGED live
    /\ Ends(t)
    /\ UNCHANGED <<site, panelDomain, requests>>

\* set_setting("panel_domain"), after either operation.
Record(t) ==
    /\ op[t].pc = "record"
    /\ panelDomain' = op[t].domain
    /\ Ends(t)
    /\ UNCHANGED <<site, live, requests, faults>>

\* The database is locked.
RecordFails(t) ==
    /\ op[t].pc = "record" /\ Fault
    /\ Ends(t)
    /\ UNCHANGED <<site, live, panelDomain, requests>>

-----------------------------------------------------------------------------
(* issue_certificate.                                                        *)

BeginCertificate(t, d) ==
    /\ op[t].pc = "idle" /\ requests < MaxRequests
    /\ op' = [op EXCEPT ![t] = [pc |-> "certbot", domain |-> d, original |-> site]]
    /\ requests' = requests + 1
    /\ UNCHANGED <<site, live, panelDomain, faults>>

\* certbot looks for the server block of the domain in the files it has read ...
CanInstall(t) ==
    LET read == op[t].original
    IN  /\ op[t].pc = "certbot"
        /\ read # Blank /\ Accepted(read) /\ read.name = op[t].domain

Certified(t) == [op[t].original EXCEPT !.cert = op[t].domain]

\* ... writes them with the certificate, tests them and reloads nginx.
Certbot(t) ==
    /\ CanInstall(t)
    /\ site' = Certified(t)
    /\ live' = site'
    /\ Goes(t, "record")
    /\ UNCHANGED <<panelDomain, requests, faults>>

\* No such block, or no challenge answered: nothing is changed.
CertbotFails(t) ==
    /\ op[t].pc = "certbot"
    /\ Ends(t)
    /\ UNCHANGED <<site, live, panelDomain, requests, faults>>

\* certbot is killed at its work, before, in or after the write and the reload.
CertbotKilled(t) ==
    /\ CanInstall(t)
    /\ site' \in {site, Blank, Certified(t)}
    /\ live' \in {live} \union ({site'} \intersect {Certified(t)})

CertbotTimesOut(t) ==
    /\ CertbotKilled(t) /\ Fault
    /\ Ends(t)
    /\ UNCHANGED <<panelDomain, requests>>

-----------------------------------------------------------------------------
\* The panel dies with its requests, and with certbot; systemd starts it again.
PanelDies ==
    /\ InFlight # {} /\ Fault
    /\ op' = [t \in Thread |-> Idle]
    /\ UNCHANGED <<site, live>> \/ \E t \in Thread : CertbotKilled(t)
    /\ UNCHANGED <<panelDomain, requests>>

ApplyStep(t) ==
    \/ Empty(t) \/ WriteSite(t) \/ WriteFails(t) \/ Validate(t) \/ ValidateFails(t)
    \/ Undo(t) \/ ReloadOriginal(t)

CertificateStep(t) == Certbot(t) \/ CertbotFails(t) \/ CertbotTimesOut(t)

PanelNext ==
    \/ \E t \in Thread :
        \/ \E d \in Domain : BeginApply(t, d) \/ BeginCertificate(t, d)
        \/ ApplyStep(t) \/ CertificateStep(t) \/ Record(t) \/ RecordFails(t)
    \/ PanelDies
=============================================================================
