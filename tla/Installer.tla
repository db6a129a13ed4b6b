------------------------------ MODULE Installer ------------------------------
(***************************************************************************)
(* panel-install: the phases in order, each checked, applied and verified, *)
(* with the state file that lets a later run skip what is done and still   *)
(* holds (installer/phases/runner.go, phases.go), and what every phase     *)
(* does to the host (the other files of installer/phases), the secrets of  *)
(* internal/credentials included.                                          *)
(*                                                                         *)
(* A phase is the list of its effects, and takes them one step each.  An   *)
(* effect establishes one fact: a file with what the configuration says, a *)
(* service that runs.                                                      *)
(* The model has the live installation, not the -dev and --root ones.      *)
(* conf stands for what a fingerprint is made of: the hostname, the        *)
(* address, the channel, the release.  The administrator's password is     *)
(* not part of it.                                                         *)
(***************************************************************************)
EXTENDS Integers, Sequences

CONSTANTS Confs,        \* configurations, told apart by their fingerprints
          Passwords,    \* what --admin-password may say; 0: nothing
          KnownPassword,\* the development default, which is refused
          MaxRuns,      \* bound: runs of panel-install
          MaxFaults     \* bound: failures, crashes and losses

ASSUME InstallerAssumption ==
    /\ Confs # {} /\ "none" \notin Confs
    /\ 0 \in Passwords /\ Passwords \subseteq Nat /\ KnownPassword \in Nat \ {0}
    /\ MaxRuns \in Nat /\ MaxFaults \in Nat

VARIABLES state,    \* install-state.json: status and fingerprint of a phase
          host,     \* host[f]: the configuration fact f holds for, or None
          secrets,  \* the two secret files; 0: missing
          served,   \* the key in pdns.conf, the administrator's password
          quota,    \* the kernel has quotas
          run,      \* the run that is under way, or the last one
          runs,     \* bound: runs so far
          faults,   \* bound: failures, crashes and losses so far
          fresh,    \* secrets generated so far, to tell them apart
          gone      \* history: facts that are missing, or old, for good reason

vars == <<state, host, secrets, served, quota, run, runs, faults, fresh, gone>>

None == "none"

-----------------------------------------------------------------------------
(* Effects.                                                                *)

Effect(kind, fact) == [kind |-> kind, fact |-> fact]
Must(fact) == Effect("must", fact)    \* an error ends the phase
Try(fact) == Effect("try", fact)      \* an error is dropped
Keep(fact) == Effect("keep", fact)    \* left as it is when it is there
Need(fact) == Effect("need", fact)    \* an error unless it is there
Reset(fact) == Effect("reset", fact)  \* removed, then established
TryReset(fact) == Effect("tryreset", fact)

Special == {"secrets", "keep-secrets", "key", "backup-key", "image", "mkfs", "mount",
            "control-plane", "live"}
Do(what) == Effect(what, what)

-----------------------------------------------------------------------------
(* What the phases apply, and what they verify.                            *)

ApplyRepositories == <<Must("apt-sources")>>

InstallPackages == <<Must("packages")>>
ApplySystemPackages == InstallPackages
VerifySystemPackages == {"packages"}

ApplyUsers == <<Must("state-directory"), Try("panel-user")>>
VerifyUsers == {"panel-user"}

ApplyControlDB == <<Try("control-database"), Must("dsn")>>
VerifyControlDB == {"dsn", "control-database"}

InstallPackedPortals == <<Must("packed-portals")>>
ApplyControlPlane == <<Do("secrets"), Must("directories"), Must("binaries")>>
                     \o InstallPackedPortals
VerifyControlPlane == {"binaries"}

ApplyWebStack == <<Must("sites-directory"), Must("nginx-includes")>>
VerifyWeb == {"sites-directory"}

ApplyDatabaseStack == <<Must("db-directory"), Try("database-servers")>>
VerifyDatabaseStack == {"database-servers"}

ReconcilePowerDNSConfig == <<Do("key")>>
WritePublicEnv == <<Must("public.env")>>
ReloadLivePowerDNS == <<TryReset("powerdns")>>
ApplyDNS == <<Must("zones-directory"), Do("keep-secrets"), Keep("pdns.conf")>>
            \o ReconcilePowerDNSConfig \o WritePublicEnv
            \o <<Must("named.conf"), Keep("named-zones.conf"), Try("dnssec-db")>>
            \o ReloadLivePowerDNS
VerifyDNS == {"pdns.conf", "powerdns"}

ReplaceConfigLine == <<Must("main.cf-lines")>>
EnsureSubmissionMaster == <<Must("master.cf")>>
EnsurePanelMailCert == <<Keep("mail-certificate")>>
ApplySMTPRelay == <<Must("relay")>>
ReloadLiveMail == <<Try("submission")>>
ApplyMail == <<Must("mail-directories"), Keep("main.cf")>> \o ReplaceConfigLine
             \o EnsureSubmissionMaster \o <<Must("sasl")>>
             \o EnsurePanelMailCert \o <<Must("dovecot.conf"), Keep("mail-maps")>>
             \o ApplySMTPRelay \o ReloadLiveMail
VerifyMail == {"main.cf", "main.cf-lines", "master.cf", "sasl", "relay", "submission"}

ApplyWAF == <<Must("modsecurity")>>
ApplyRspamd == <<Must("rspamd")>>
ApplyClamAV == <<Must("clamav"), Try("signatures")>>
ApplyFTPStack == <<Must("vsftpd.conf"), Reset("vsftpd")>>
ApplyBackupOffsite == <<Must("backup-sshd"), Do("backup-key"), Need("backup-key.pub"),
                        Must("backup-sftp.env")>>
StartObjectStore == <<Try("object-store")>>
ApplyBackupS3 == <<Must("objects-directory"), Keep("backup-s3.env")>> \o StartObjectStore
ApplySecurity == ApplyWAF \o ApplyRspamd \o ApplyClamAV
                 \o <<Must("fail2ban"), Must("quotas-directory")>>
                 \o ApplyFTPStack \o <<Must("sftp-sshd")>>
                 \o ApplyBackupOffsite \o ApplyBackupS3
VerifySecurity == {"modsecurity", "rspamd", "clamav", "fail2ban", "quotas-directory",
                   "vsftpd.conf", "sftp-sshd", "backup-sshd", "backup-sftp.env",
                   "objects-directory", "backup-s3.env"}

ApplyLiveNFT == <<Reset("nft-table")>>
ApplyFirewall == <<Must("nft-file")>> \o ApplyLiveNFT
VerifyFirewall == {"nft-file", "nft-table"}

ApplyRuntimeVersions == <<Must("runtime-versions")>>
ApplyTemplates == <<Must("templates")>>

EnsureACME == <<Must("acme.env")>>
ReloadNginx(fact) == <<Must(fact)>>
ApplyTLS == <<Must("acme-www"), Must("00-acme.conf")>> \o ReloadNginx("acme-served")
            \o EnsureACME
VerifyTLS == {"acme-www", "00-acme.conf", "acme.env"}

ApplyUpdatePolicy == <<Must("update.env"), Must("update.pub"), Must("update-status"),
                       Must("current-release")>>
EnableBootUnits == <<Reset("boot-links")>>
EnableUpdateTimer == <<Reset("timer-link")>>
ApplySystemd == <<Must("units")>> \o ApplyUpdatePolicy \o EnableBootUnits
                \o EnableUpdateTimer
VerifySystemd == {"units", "boot-links", "timer-link", "update.env", "update.pub",
                  "current-release"}

BindPanelHomes == <<Must("home-binds")>>
EnsureQuotaFstab == <<Must("quota-fstab")>>
EnsureQuotaHomes == <<Do("image"), Do("mkfs"), Must("quota-directory"), Do("mount")>>
                    \o EnsureQuotaFstab \o BindPanelHomes
VerifyQuotaHomes == {"quota-directory"}

ActivateServices == <<Need("services")>>
StartHostServices == <<Try("services")>>
StartControlPlane == <<Do("control-plane")>>
StartSMTPPolicy == <<Try("smtp-policy")>>
EnablePanelUnits == <<Try("enabled-units")>>
StartAccountApps == <<Try("account-apps")>>
ApplyExistingCgroups == <<Try("cgroups")>>
ApplyHostRuntime == StartHostServices \o StartControlPlane \o StartSMTPPolicy
                    \o StartObjectStore \o <<Try("acme.env")>> \o EnablePanelUnits
                    \o StartAccountApps \o <<TryReset("nft-table")>>
                    \o ApplyExistingCgroups \o ActivateServices
VerifyHealth == {"services"}
VerifyHostRuntime == VerifyHealth \cup {"control-plane", "smtp-policy", "object-store"}

EnsurePortalCertificate == <<Keep("portal-certificate")>>
CopyPortalTree(fact) == <<Must(fact)>>
InstallPortalApp == CopyPortalTree("portal-apps")
WritePortalHostnameFile == <<Try("portal-hostname")>>
TryIssuePortalHostnameCertificate == <<Try("hostname-certificate"), Try("acme-status")>>
WritePortalNginx == <<Must("portal-nginx")>>
WritePortalHTTPNginx == <<Must("portal-redirect")>>
ApplyPortals == EnsurePortalCertificate \o InstallPortalApp
                \o WritePortalHostnameFile \o TryIssuePortalHostnameCertificate
                \o WritePortalNginx \o WritePortalHTTPNginx
                \o ReloadNginx("portals-served")
VerifyPortalTLS == {"portal-certificate", "portal-nginx", "portal-hostname", "acme-status"}
VerifyPortals == {"portal-apps", "portals-served"} \cup VerifyPortalTLS

ApplyAdministratorStored == <<Do("secrets"), Must("administrator.txt")>>
ApplyAdministrator == <<Do("secrets"), Must("administrator.txt"), Do("live")>>
ApplyHealth == <<Must("health-report")>>
ApplyReport == <<Must("installation-report")>>

Phase(apply, verify) == [apply |-> apply, verify |-> verify]
All == <<
    Phase(<<>>, {}),                            \* preflight
    Phase(ApplyRepositories, {}),
    Phase(ApplySystemPackages, VerifySystemPackages),
    Phase(ApplyUsers, VerifyUsers),
    Phase(ApplyControlDB, VerifyControlDB),
    Phase(ApplyControlPlane, VerifyControlPlane),
    Phase(ApplyWebStack, VerifyWeb),
    Phase(ApplyDatabaseStack, VerifyDatabaseStack),
    Phase(ApplyDNS, VerifyDNS),
    Phase(ApplyMail, VerifyMail),
    Phase(ApplySecurity, VerifySecurity),
    Phase(ApplyFirewall, VerifyFirewall),
    Phase(ApplyRuntimeVersions, {}),
    Phase(ApplyTemplates, {}),
    Phase(ApplyTLS, VerifyTLS),
    Phase(ApplySystemd, VerifySystemd),
    Phase(EnsureQuotaHomes, VerifyQuotaHomes),
    Phase(ApplyHostRuntime, VerifyHostRuntime),
    Phase(ApplyPortals, VerifyPortals),
    Phase(ApplyAdministrator, {}),
    Phase(ApplyHealth, VerifyHealth),
    Phase(ApplyReport, {})>>

Phases == 1..Len(All)
Effects(p) == {All[p].apply[i] : i \in 1..Len(All[p].apply)}
Facts == {e.fact : e \in {x \in UNION {Effects(p) : p \in Phases} : x.kind \notin Special}}
         \cup {"backup-key", "control-plane", "quota-image", "quota-filesystem", "quota-mount"}
Verified == UNION {All[p].verify : p \in Phases}
\* The files that say what the configuration says.
Named == {"main.cf", "portal-nginx", "portal-hostname", "administrator.txt",
          "portal-redirect", "installation-report", "health-report", "current-release"}

Administrator == CHOOSE p \in Phases : All[p].apply = ApplyAdministrator

TypeOK ==
    /\ state \in [status : [Phases -> {"none", "running", "failed", "complete"}],
                  print : [Phases -> Confs \cup {None}]]
    /\ host \in [Facts -> Confs \cup {None}]
    /\ secrets \in [admin : Nat, key : Nat] /\ served \in [key : Nat, admin : Nat]
    /\ quota \in BOOLEAN /\ runs \in 0..MaxRuns /\ faults \in 0..MaxFaults
    /\ run \in [pc : {"phase", "apply", "verify", "ok", "error"}, phase : 1..Len(All) + 1,
                at : Nat, blank : BOOLEAN, conf : Confs, password : Passwords,
                printed : Nat, hurt : BOOLEAN, skipped : BOOLEAN]
    /\ fresh \in Nat /\ gone \subseteq Facts \cup {"secrets", "password"}

Init ==
    /\ state = [status |-> [p \in Phases |-> "none"], print |-> [p \in Phases |-> None]]
    /\ host = [f \in Facts |-> None]
    /\ secrets = [admin |-> 0, key |-> 0] /\ served = [key |-> 0, admin |-> 0]
    /\ quota \in BOOLEAN
    /\ \E c \in Confs :
          run = [pc |-> "error", phase |-> 1, at |-> 1, blank |-> FALSE, conf |-> c,
                 password |-> 0, printed |-> 0, hurt |-> TRUE, skipped |-> FALSE]
    /\ runs = 0 /\ faults = 0 /\ fresh = KnownPassword /\ gone = {}

-----------------------------------------------------------------------------
(* What an effect makes of the host.  w holds the variables an effect can  *)
(* change and how the phase goes: "on", "done" (it returns early), "error" *)
(* or "crash".  how tells whether the effect works, fails, or is cut off   *)
(* half way by a crash.                                                    *)

World == [host |-> host, secrets |-> secrets, served |-> served, fresh |-> fresh,
          gone |-> gone, goes |-> "on"]

Establish(w, f) == [w EXCEPT !.host[f] = run.conf, !.gone = @ \ {f}]
Drop(w, f) == [w EXCEPT !.gone = @ \cup {f}]
Ends(w, how) == [w EXCEPT !.goes = IF how = "half" THEN "crash" ELSE "error"]

Loaded(w) == w.secrets.admin # 0 /\ w.secrets.key # 0

Stored(w, admin, key, used, how) ==
    LET v == [w EXCEPT !.secrets.admin = admin, !.fresh = used,
                       !.gone = IF w.served.admin \in {0, admin} THEN @
                                ELSE @ \cup {"password"}]
    IN  IF how = "half" THEN Ends(v, how) ELSE [v EXCEPT !.secrets.key = key]

EnsureNewKey(w, password, how) ==
    IF password = KnownPassword \/ how = "fails" THEN Ends(w, "fails")
    ELSE Stored(w, IF password # 0 THEN password
                   ELSE IF w.secrets.admin # 0 THEN w.secrets.admin ELSE w.fresh + 1,
                w.fresh + 2, w.fresh + 2, how)

\* The secrets in place are used when both files can be read; otherwise both
\* are new, except a password that was given.  The two files are written one
\* after the other.
Ensure(w, password, how) ==
    LET admin == IF password # 0 THEN password
                 ELSE IF Loaded(w) THEN w.secrets.admin ELSE w.fresh + 1
    IN  IF password = KnownPassword \/ how = "fails" THEN Ends(w, "fails")
        ELSE IF Loaded(w) THEN Stored(w, admin, w.secrets.key, w.fresh, how)
        ELSE Stored(w, admin, w.fresh + 2, w.fresh + 2, how)

\* The administrator's row is there once panel-api has made it.
UpdateLiveAdminPassword(w, how) ==
    IF how # "works" THEN Ends(w, how)
    ELSE IF w.served.admin = 0 THEN w
    ELSE [w EXCEPT !.served.admin = w.secrets.admin, !.gone = @ \ {"password"}]

\* panel-api makes the administrator when it starts and there is none.
SeedAdmin(w) ==
    IF w.served.admin # 0 THEN w
    ELSE [w EXCEPT !.served.admin = w.secrets.admin, !.gone = @ \ {"password"}]

\* panel-api and panel-worker do not start without the secrets.
Boot(w, how) ==
    IF w.host["control-plane"] # None THEN w
    ELSE IF how = "half" THEN Ends(w, how)
    ELSE IF how = "fails" \/ ~Loaded(w) THEN Drop(w, "control-plane")
    ELSE SeedAdmin(Establish(w, "control-plane"))

\* A filesystem is made only by the run that makes the image.
MakeQuotaImage(w, how) ==
    IF ~quota THEN [w EXCEPT !.goes = "done"]
    ELSE IF w.host["quota-image"] # None THEN w
    ELSE IF how # "works" THEN Ends(w, how)
    ELSE Establish([w EXCEPT !.host["quota-filesystem"] = None,
                             !.gone = @ \cup {"quota-filesystem"}], "quota-image")

\* run.blank: this phase has made the image.
MakeFilesystem(w, how) ==
    IF ~run.blank THEN w
    ELSE IF how # "works" THEN Ends(w, how) ELSE Establish(w, "quota-filesystem")

\* An image that cannot be mounted ends the phase, with no error.
MountQuotaImage(w, how) ==
    IF w.host["quota-mount"] # None THEN w
    ELSE IF how = "half" THEN Ends(w, how)
    ELSE IF how = "fails" \/ w.host["quota-filesystem"] = None
    THEN [w EXCEPT !.goes = "done",
                   !.gone = @ \cup {"quota-mount", "quota-fstab", "home-binds"}]
    ELSE Establish(w, "quota-mount")

BackupKeyAnew(w, how) ==
    IF w.host["backup-key"] # None \/ how # "works" THEN Ends(w, how)
    ELSE Establish(Establish(w, "backup-key"), "backup-key.pub")

BackupKey(w, how) ==
    IF w.host["backup-key"] # None THEN w
    ELSE IF how # "works" THEN Ends(w, how)
    ELSE Establish(Establish(w, "backup-key"), "backup-key.pub")

Take(w, e, how) ==
    CASE e.kind = "must" -> IF how = "works" THEN Establish(w, e.fact) ELSE Ends(w, how)
      [] e.kind = "try" -> IF how = "works" THEN Establish(w, e.fact)
                           ELSE IF how = "half" THEN Ends(w, how) ELSE Drop(w, e.fact)
      [] e.kind = "keep" ->
             IF w.host[e.fact] = run.conf THEN w
             ELSE IF w.host[e.fact] # None THEN Drop(w, e.fact)
             ELSE IF how = "works" THEN Establish(w, e.fact) ELSE Ends(w, how)
      [] e.kind = "need" -> IF how = "works" /\ w.host[e.fact] # None THEN w
                            ELSE Ends(w, how)
      [] e.kind = "reset" -> IF how = "works" THEN Establish(w, e.fact)
                             ELSE Ends([w EXCEPT !.host[e.fact] = None], how)
      [] e.kind = "tryreset" ->
             IF how = "works" THEN Establish(w, e.fact)
             ELSE LET removed == [Drop(w, e.fact) EXCEPT !.host[e.fact] = None]
                  IN  IF how = "half" THEN Ends(removed, how) ELSE removed
      [] e.kind = "secrets" -> Ensure(w, run.password, how)
      [] e.kind = "keep-secrets" -> Ensure(w, 0, how)
      [] e.kind = "key" -> IF how # "works" THEN Ends(w, how)
                           ELSE [w EXCEPT !.served.key = w.secrets.key,
                                          !.gone = @ \ {"secrets"}]
      [] e.kind = "backup-key" -> BackupKey(w, how)
      [] e.kind = "image" -> MakeQuotaImage(w, how)
      [] e.kind = "mkfs" -> MakeFilesystem(w, how)
      [] e.kind = "mount" -> MountQuotaImage(w, how)
      [] e.kind = "control-plane" -> Boot(w, how)
      [] e.kind = "live" -> UpdateLiveAdminPassword(w, how)

-----------------------------------------------------------------------------
(* The runner.                                                             *)

Idle == run.pc \in {"ok", "error"}
Fault == faults < MaxFaults /\ faults' = faults + 1

Becomes(w) ==
    /\ host' = w.host /\ secrets' = w.secrets /\ served' = w.served
    /\ fresh' = w.fresh /\ gone' = w.gone

\* What install.yaml, the flags, the environment and the prompt may give.
Configs == [conf : Confs, password : Passwords]

Start(c) ==
    /\ Idle /\ runs < MaxRuns
    /\ runs' = runs + 1
    /\ run' = [pc |-> "phase", phase |-> 1, at |-> 1, blank |-> FALSE, conf |-> c.conf,
               password |-> c.password, printed |-> 0, hurt |-> FALSE, skipped |-> FALSE]
    /\ UNCHANGED <<state, host, secrets, served, quota, faults, fresh, gone>>

Verify(p) == \A f \in All[p].verify : host[f] # None

PhaseFingerprint == run.conf

Skips(p) == state.status[p] = "complete" /\ state.print[p] = PhaseFingerprint
            /\ Verify(p)

AtPhase == run.pc = "phase" /\ run.phase \in Phases

Skip ==
    /\ AtPhase /\ Skips(run.phase)
    /\ run' = [run EXCEPT !.phase = @ + 1,
                          !.skipped = @ \/ run.phase = Administrator]
    /\ UNCHANGED <<state, host, secrets, served, quota, runs, faults, fresh, gone>>

BeginUnsaved ==
    /\ AtPhase /\ ~Skips(run.phase)
    /\ run' = [run EXCEPT !.pc = "apply"]
    /\ UNCHANGED <<state, host, secrets, served, quota, runs, faults, fresh, gone>>

\* The phase is known to be under way before its first effect.
Begin ==
    /\ AtPhase /\ ~Skips(run.phase)
    /\ state' = [state EXCEPT !.status[run.phase] = "running"]
    /\ run' = [run EXCEPT !.pc = "apply"]
    /\ UNCHANGED <<host, secrets, served, quota, runs, faults, fresh, gone>>

\* The state file or the log cannot be written, that of a skip included.
BeginFails ==
    /\ AtPhase /\ Fault
    /\ \/ ~Skips(run.phase) /\ state' = [state EXCEPT !.status[run.phase] = "running"]
       \/ UNCHANGED state
    /\ run' = [run EXCEPT !.pc = "error", !.hurt = TRUE]
    /\ UNCHANGED <<host, secrets, served, quota, runs, fresh, gone>>

FailPhaseNamed == state' = [state EXCEPT !.status[run.phase] = "error"]
FailPhase == state' = [state EXCEPT !.status[run.phase] = "failed"]

CheckPreflight == run.phase = 1 => run.password # KnownPassword

CheckFails ==
    /\ run.pc = "apply" /\ ~CheckPreflight
    /\ FailPhase /\ run' = [run EXCEPT !.pc = "error"]
    /\ UNCHANGED <<host, secrets, served, quota, runs, faults, fresh, gone>>

Plan == All[run.phase].apply

\* The phase goes on with its next effect, returns, or ends with an error.
ApplyOf(w, hurt) ==
    /\ Becomes(w)
    /\ \/ w.goes = "on" /\ UNCHANGED state
          /\ run' = [run EXCEPT !.at = @ + 1, !.hurt = @ \/ hurt, !.blank =
                        @ \/ (host["quota-image"] = None /\ w.host["quota-image"] # None)]
       \/ w.goes = "done" /\ UNCHANGED state
          /\ run' = [run EXCEPT !.pc = "verify", !.hurt = @ \/ hurt]
       \/ w.goes = "error" /\ FailPhase
          /\ run' = [run EXCEPT !.pc = "error", !.hurt = @ \/ hurt]
       \/ w.goes = "crash" /\ UNCHANGED state
          /\ run' = [run EXCEPT !.pc = "error", !.hurt = TRUE]
    /\ UNCHANGED <<quota, runs>>

AtEffect == run.pc = "apply" /\ CheckPreflight /\ run.at <= Len(Plan)

Apply ==
    AtEffect /\ ApplyOf(Take(World, Plan[run.at], "works"), FALSE) /\ UNCHANGED faults

ApplyWithFault ==
    /\ AtEffect /\ Fault
    /\ \E how \in {"fails", "half"} : ApplyOf(Take(World, Plan[run.at], how), TRUE)

Applied ==
    /\ run.pc = "apply" /\ CheckPreflight /\ run.at > Len(Plan)
    /\ run' = [run EXCEPT !.pc = "verify"]
    /\ UNCHANGED <<state, host, secrets, served, quota, runs, faults, fresh, gone>>

Complete == [status |-> [state.status EXCEPT ![run.phase] = "complete"],
             print |-> [state.print EXCEPT ![run.phase] = PhaseFingerprint]]

VerifyPhase ==
    /\ run.pc = "verify"
    /\ \/ Verify(run.phase) /\ state' = Complete
          /\ run' = [run EXCEPT !.pc = "phase", !.phase = @ + 1, !.at = 1, !.blank = FALSE]
       \/ ~Verify(run.phase) /\ FailPhase /\ run' = [run EXCEPT !.pc = "error"]
    /\ UNCHANGED <<host, secrets, served, quota, runs, faults, fresh, gone>>

\* A crash, or the state or the log cannot be written.
VerifyFails ==
    /\ run.pc = "verify" /\ Fault
    /\ UNCHANGED state \/ (Verify(run.phase) /\ state' = Complete)
    /\ run' = [run EXCEPT !.pc = "error", !.hurt = TRUE]
    /\ UNCHANGED <<host, secrets, served, quota, runs, fresh, gone>>

\* main makes sure of the secrets once more and prints the password.  One that
\* is given to a run that skips the administrator is stored and printed only.
Finish ==
    /\ run.pc = "phase" /\ run.phase \notin Phases
    /\ LET w == Ensure(World, run.password, "works")
       IN  /\ run' = [run EXCEPT !.pc = IF w.goes = "on" THEN "ok" ELSE "error",
                                 !.printed = IF w.goes = "on" THEN w.secrets.admin ELSE 0]
           /\ Becomes(w)
    /\ UNCHANGED <<state, quota, runs, faults>>

-----------------------------------------------------------------------------
(* Between the runs.                                                       *)

SetAdministratorPassword(password, how) ==
    /\ Idle /\ runs < MaxRuns /\ runs' = runs + 1
    /\ LET w == Ensure(World, password, "works")
           live == IF w.goes = "on" THEN UpdateLiveAdminPassword(w, how) ELSE w
       IN  Becomes(live)
    /\ run' = [run EXCEPT !.pc = "error", !.hurt = TRUE]
    /\ IF how = "works" THEN UNCHANGED faults ELSE Fault
    /\ UNCHANGED <<state, quota>>

\* The administrator changes the password in Director.
ChangeInDirector ==
    /\ Idle /\ served.admin # 0 /\ Fault
    /\ served' = [served EXCEPT !.admin = fresh + 1] /\ fresh' = fresh + 1
    /\ gone' = gone \cup {"password"}
    /\ run' = [run EXCEPT !.pc = "error", !.hurt = TRUE]
    /\ UNCHANGED <<state, host, secrets, quota, runs>>

\* A file is removed, a process ends, the host boots without the mount.  Only
\* what some phase verifies is to be put right.
Lose(f) ==
    /\ Idle /\ host[f] # None /\ Fault
    /\ host' = [host EXCEPT ![f] = None]
    /\ gone' = IF f \in Verified THEN gone ELSE gone \cup {f}
    /\ run' = [run EXCEPT !.pc = "error", !.hurt = TRUE]
    /\ UNCHANGED <<state, secrets, served, quota, runs, fresh>>

LoseSecret(s) ==
    /\ Idle /\ secrets[s] # 0 /\ Fault
    /\ secrets' = [secrets EXCEPT ![s] = 0]
    /\ gone' = gone \cup {"secrets"}
    /\ run' = [run EXCEPT !.pc = "error", !.hurt = TRUE]
    /\ UNCHANGED <<state, host, served, quota, runs, fresh>>

Done == Idle /\ runs = MaxRuns /\ UNCHANGED vars

Next ==
    \/ \E c \in Configs : Start(c)
    \/ Skip \/ Begin \/ BeginFails \/ CheckFails \/ Apply \/ ApplyWithFault \/ Applied
    \/ VerifyPhase \/ VerifyFails \/ Finish
    \/ \E password \in Passwords \ {0}, how \in {"works", "fails"} :
          SetAdministratorPassword(password, how)
    \/ ChangeInDirector
    \/ \E f \in Facts : Lose(f)
    \/ \E s \in {"admin", "key"} : LoseSecret(s)
    \/ Done

Spec == Init /\ [][Next]_vars

-----------------------------------------------------------------------------
(* Properties.                                                             *)

\* When panel-install reports success, everything its phases establish is on
\* the host, for the configuration of this run: also when an earlier run with
\* another configuration died in the middle of a phase, or something was lost
\* that a verify function looks at.  The exceptions are what the code gives up
\* on: an error it drops, a file it keeps, a loss that no phase verifies, and
\* the nftables table when host_runtime's second load of it fails
\* (installer/phases/runner.go, Run).
InstalledOnSuccess ==
    run.pc = "ok" =>
        \A f \in Facts :
            /\ host[f] # None \/ (f \in gone /\ f \notin Verified \ {"nft-table"})
            /\ f \in Named => host[f] = run.conf \/ f \in gone

\* PowerDNS and the panel use one API key after an installation that succeeds,
\* however the runs before it died, unless one of the two secret files was
\* lost and the DNS phase has not run again (internal/credentials, Ensure).
KeysAgree == run.pc = "ok" => secrets.key = served.key \/ "secrets" \in gone

\* The password that is printed is the one Director accepts.  Always when the
\* run has applied the administrator's phase; when it has skipped it, unless a
\* password was stored or changed since it was last made live
\* (cmd/panel-install, main; applyAdministrator).
PrintedPasswordWorks ==
    run.pc = "ok" => \/ run.printed = served.admin
                     \/ run.skipped /\ "password" \in gone

\* Whatever earlier runs left behind, a run that meets no failure of its own
\* succeeds: the exceptions are the development password, a kernel without
\* quotas, the offsite key without its public half, and a lost secret file,
\* without which panel-api does not start.
RerunRecovers ==
    run.pc = "error" =>
        \/ run.hurt \/ run.password = KnownPassword \/ ~quota
        \/ gone \cap {"backup-key.pub", "secrets"} # {}

=============================================================================
