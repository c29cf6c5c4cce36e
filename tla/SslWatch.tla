------------------------------- MODULE SslWatch -------------------------------
(***************************************************************************)
(* The certificate watch of one https monitor (app.py): check_ssl_expiry   *)
(* reads services.ssl_last_alert, fetches the certificate in seconds       *)
(* without a lock, stores the level of its expiry under db_lock, and sends *)
(* a message afterwards if the level is worse than the one it had read.    *)
(* The job and every request that adds or re-checks a monitor start a run  *)
(* of their own; nothing keeps two of them apart.  The connection verifies *)
(* the certificate: one that has expired is not fetched, and its row keeps *)
(* the level it had.                                                       *)
(***************************************************************************)
EXTENDS Integers

CONSTANTS
    SslRuns,    \* runs of check_ssl_expiry at a time
    Days,       \* days left that a certificate may show
    MaxMissed   \* bound on writes refused and runs that die

None == 0 \* no level, 1 warning, 2 high, 3 expired

\* _ssl_level, with its order
SslLevel(days) ==
    CASE days < 0               -> 3
      [] days \in 0..7          -> 2
      [] days \in 8..30         -> 1
      [] days > 30              -> None

Unreachable == -1000  \* no certificate, or one refused for another reason

ASSUME SslAssumption == MaxMissed \in Nat /\ Days \subseteq Int /\ Unreachable \notin Days

VARIABLES
    days,     \* what the certificate of the target shows at the moment
    stored,   \* ssl_last_alert of the row
    sslRun,   \* runs of check_ssl_expiry
    told,     \* history: the worst level announced since a run stored none
    missed,   \* history: writes refused and runs that died
    stale,    \* history: a run stored although another had since it loaded
    silent    \* history: a run died between its store and its message

sslVars == <<days, stored, sslRun, told, missed, stale, silent>>

Levels == 0..3
NoRun  == [at |-> "idle", prev |-> None, level |-> None]

SslTypeOK ==
    /\ days \in Days \cup {Unreachable}
    /\ stored \in Levels
    /\ sslRun \in [SslRuns -> [at : {"idle", "loaded", "fetched", "announce"},
                               prev : Levels, level : Levels]]
    /\ told \in Levels
    /\ missed \in 0..MaxMissed
    /\ stale \in BOOLEAN /\ silent \in BOOLEAN

SslInit ==
    /\ days = Unreachable
    /\ stored = None
    /\ sslRun = [r \in SslRuns |-> NoRun]
    /\ told = None
    /\ missed = 0
    /\ stale = FALSE /\ silent = FALSE

\* Another day, another certificate, another server behind the name.
CertificateChanges ==
    /\ days' \in (Days \cup {Unreachable}) \ {days}
    /\ UNCHANGED <<stored, sslRun, told, missed, stale, silent>>

LoadLevel(r) ==
    /\ sslRun[r].at = "idle"
    /\ sslRun' = [sslRun EXCEPT ![r] = [at |-> "loaded", prev |-> stored, level |-> None]]
    /\ UNCHANGED <<days, stored, told, missed, stale, silent>>

\* The handshake by the default context of ssl.
Verified == days >= 0

\* get_ssl_expiry: a target without a certificate, or with one that has expired,
\* raises and is passed over.  A certificate that expires between the handshake
\* and the reading of the clock is left out.
FetchCertificate(r) ==
    /\ sslRun[r].at = "loaded"
    /\ sslRun' = [sslRun EXCEPT ![r] =
          IF ~Verified THEN NoRun
          ELSE [at |-> "fetched", prev |-> @.prev, level |-> SslLevel(days)]]
    /\ UNCHANGED <<days, stored, told, missed, stale, silent>>

\* Mutant: a message is sent only for the first level.
EscalatedOnce(r) == sslRun[r].level # None /\ sslRun[r].prev = None
Escalated(r) == sslRun[r].level > sslRun[r].prev

Miss == missed < MaxMissed /\ missed' = missed + 1

\* Mutant: the column is written only when a message is due.
StoredLevelOfAlert(r) == IF Escalated(r) THEN sslRun[r].level ELSE stored
StoredLevel(r) == sslRun[r].level

\* A refused UPDATE passes over the row, a refused commit ends the run.
StoreLevel(r) ==
    /\ sslRun[r].at = "fetched"
    /\ \/ /\ stored' = StoredLevel(r)
          /\ told' = IF sslRun[r].level = None THEN None ELSE told
          /\ stale' = (stale \/ sslRun[r].prev # stored)
          /\ sslRun' = [sslRun EXCEPT ![r] =
                IF Escalated(r) THEN [at |-> "announce", prev |-> @.prev, level |-> @.level]
                ELSE NoRun]
          /\ UNCHANGED missed
       \/ /\ Miss
          /\ sslRun' = [sslRun EXCEPT ![r] = NoRun]
          /\ UNCHANGED <<stored, told, stale>>
    /\ UNCHANGED <<days, silent>>

Worse(a, b) == IF a > b THEN a ELSE b

\* send_telegram_alert, its failures swallowed.
Announce(r) ==
    /\ sslRun[r].at = "announce"
    /\ told' = Worse(told, sslRun[r].level)
    /\ sslRun' = [sslRun EXCEPT ![r] = NoRun]
    /\ UNCHANGED <<days, stored, missed, stale, silent>>

\* A restart ends all runs.
StopSsl ==
    /\ Miss
    /\ sslRun' = [r \in SslRuns |-> NoRun]
    /\ silent' = (silent \/ \E r \in SslRuns : sslRun[r].at = "announce")
    /\ UNCHANGED <<days, stored, told, stale>>

SslStep(r) == LoadLevel(r) \/ FetchCertificate(r) \/ StoreLevel(r) \/ Announce(r)

SslNext ==
    \/ CertificateChanges
    \/ \E r \in SslRuns : SslStep(r)
    \/ StopSsl

SslSpec == SslInit /\ [][SslNext]_sslVars

-----------------------------------------------------------------------------
(* A level in the table has been announced, or a run is about to announce  *)
(* it, since the certificate was last good: the level is stored before the *)
(* message goes out and is then never announced again, so that only a run  *)
(* that died in between, or one that compared with a level another run had *)
(* replaced, may leave it unannounced (app.py:815-860).                    *)
LevelWasAnnounced ==
    ~stale /\ ~silent =>
        \/ stored <= told
        \/ \E r \in SslRuns : sslRun[r].at = "announce" /\ sslRun[r].level >= stored

(* The level in the table is that of the certificate once this stays as it *)
(* is, whichever run stores last and also after a renewal (app.py:773-793, *)
(* 823-840).  One that has expired is excepted: no run sees it, so that    *)
(* the level 3 and its message (app.py:748, 865-868) are never reached.    *)
LevelFollowsCertificate ==
    \A d \in {e \in Days : e >= 0} : <>[](days = d) => <>[](stored = SslLevel(d))
=============================================================================
