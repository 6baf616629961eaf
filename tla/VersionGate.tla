----------------------------- MODULE VersionGate -----------------------------
(***************************************************************************)
(* version/manager.rs and requirements.rs, before anything else of `start': *)
(* the version document from three sources in turn, the country, the list  *)
(* of restricted countries and the constraints of the document, one after  *)
(* the other.  The document comes from the origin, from its proxy or from  *)
(* the repository; what it contains is chosen as it is read.               *)
(***************************************************************************)
EXTENDS VersionProxy, Sequences

CONSTANTS
  Client,          \* the request of this program, if it asks the proxy
  Constraints,     \* the constraints a document may hold
  MaxConstraints,  \* bound: constraints of a document
  Current,         \* the version of this program; versions are numbers
  Countries,
  Fallback         \* the country if none is detected, "US"

ASSUME GateAssumption ==
  /\ Client \in Requests
  /\ Constraints \subseteq [version : Nat \cup {None},  \* None: does not parse
                            type    : {"blocking", "warning", "notice"},
                            start   : Nat \cup {None}]
  /\ MaxConstraints \in Nat
  /\ Current \in Nat
  /\ Fallback \in Countries /\ None \notin Countries

VARIABLES
  main,        \* the document in the repository
  gate,        \* where validate_version_requirements is
  failed,      \* history: the sources that failed
  document,
  country,     \* COUNTRY_CODE
  restricted,  \* ofac_country_names
  read,        \* the constraints looked at so far
  worst,       \* most_severe_violation, by its place; zero for none
  verdict

gateVars == <<gate, failed, document, country, restricted, read, worst, verdict>>
vars == <<proxyVars, main, gateVars>>

Sources == {"primary", "cache", "github"}

TypeOK ==
  /\ ProxyTypeOK
  /\ main \in Documents /\ origin <= main
  /\ gate \in Sources \cup {"cloudflare", "ipinfo", "ofac", "constraints", "decided"}
  /\ failed \subseteq Sources
  /\ document \in Documents \cup {None}
  /\ country \in Countries \cup {None}
  /\ restricted \subseteq Countries
  /\ read \in Seq(Constraints) /\ Len(read) <= MaxConstraints
  /\ worst \in 0..Len(read)
  /\ verdict \in {"none", "start", "blocked", "restricted", "no_clock", "unparsable",
                  "unverified"}

Init ==
  /\ ProxyInit
  /\ main = 1
  /\ gate = "primary"
  /\ failed = {}
  /\ document = None /\ country = None
  /\ restricted = {}
  /\ read = <<>> /\ worst = 0
  /\ verdict = "none"

-----------------------------------------------------------------------------
(***************************************************************************)
(* VersionRequirements::fetch                                              *)
(***************************************************************************)

\* Bound: the world is followed until the program has its document, and is
\* forgotten then, but for the clock.
Fetched(d) ==
  /\ document' = d
  /\ gate' = "cloudflare"
  /\ main' = 1 /\ origin' = 1
  /\ replaced' = [e \in Documents |-> None]
  /\ cachedResponse' = None
  /\ request' = [r \in Requests |-> Idle]
  /\ UNCHANGED <<now, failed, country, restricted, read, worst, verdict>>

\* A fault: the sources are tried again from the first.
FailsOver(source) ==
  /\ gate = source
  /\ failed' = failed \cup {source}
  /\ gate' = CASE source = "primary" -> "cache"
               [] source = "cache"   -> "github"
               [] source = "github"  -> "primary"
  /\ UNCHANGED <<proxyVars, main, document, country, restricted, read, worst, verdict>>

\* No answer in ten seconds, an error, or no document: the next source, and
\* after the last the program exits.
Fails(source) ==
  /\ gate = source
  /\ failed' = failed \cup {source}
  /\ IF source = "github"
     THEN gate' = "decided" /\ verdict' = "unverified"
     ELSE /\ gate' = IF source = "primary" THEN "cache" ELSE "github"
          /\ UNCHANGED verdict
  /\ UNCHANGED <<proxyVars, main, document, country, restricted, read, worst>>

PrimaryAnswers == gate = "primary" /\ Fetched(origin)

CacheAnswers ==
  /\ gate = "cache"
  /\ request[Client].cached \in {"HIT", "MISS", "STALE"}
  /\ Fetched(request[Client].data)

GithubAnswers == gate = "github" /\ Fetched(main)

-----------------------------------------------------------------------------
(***************************************************************************)
(* The country, the list and the constraints                               *)
(***************************************************************************)

Detected(c) ==
  /\ country' = c
  /\ gate' = "ofac"
  /\ UNCHANGED <<proxyVars, main, failed, document, restricted, read, worst, verdict>>

DetectCountry ==
  \/ gate \in {"cloudflare", "ipinfo"} /\ \E c \in Countries : Detected(c)
  \/ gate = "ipinfo" /\ Detected(Fallback)
  \/ /\ gate = "cloudflare"
     /\ gate' = "ipinfo"
     /\ UNCHANGED <<proxyVars, main, failed, document, country, restricted, read, worst,
                    verdict>>

CheckCountry(listed) ==
  /\ gate = "ofac"
  /\ restricted' = listed
  /\ IF country \in listed
     THEN gate' = "decided" /\ verdict' = "restricted"
     ELSE gate' = "constraints" /\ UNCHANGED verdict
  /\ UNCHANGED <<proxyVars, main, failed, document, country, read, worst>>

\* The clock is before the epoch: the loop is not begun.
ClockFails ==
  /\ gate = "constraints" /\ read = <<>>
  /\ gate' = "decided" /\ verdict' = "no_clock"
  /\ UNCHANGED <<proxyVars, main, failed, document, country, restricted, read, worst>>

Active(c) == c.start = None \/ now >= c.start

\* A fault: the first violation stays.
FirstStays(c) == worst = 0

ShouldReplace(c) ==
  \/ worst = 0
  \/ c.type = "blocking"
  \/ c.type \in {"warning", "notice"} /\ read[worst].type = "notice"

\* A fault: a constraint that does not parse is skipped.
CheckParsable(c) ==
  /\ gate = "constraints" /\ Len(read) < MaxConstraints
  /\ read' = Append(read, c)
  /\ worst' = IF Active(c) /\ c.version # None /\ Current < c.version /\ ShouldReplace(c)
              THEN Len(read) + 1 ELSE worst
  /\ UNCHANGED <<proxyVars, main, gate, failed, document, country, restricted, verdict>>

\* One turn of the loop: a constraint that is not active is skipped, one that
\* does not parse ends the program.
CheckConstraint(c) ==
  /\ gate = "constraints" /\ Len(read) < MaxConstraints
  /\ read' = Append(read, c)
  /\ IF Active(c) /\ c.version = None
     THEN gate' = "decided" /\ verdict' = "unparsable" /\ UNCHANGED worst
     ELSE /\ worst' = IF Active(c) /\ Current < c.version /\ ShouldReplace(c)
                      THEN Len(read) + 1 ELSE worst
          /\ UNCHANGED <<gate, verdict>>
  /\ UNCHANGED <<proxyVars, main, failed, document, country, restricted>>

\* The worst violation ends the program if it is blocking, and is printed if not.
Conclude ==
  /\ gate = "constraints"
  /\ gate' = "decided"
  /\ verdict' = IF worst # 0 /\ read[worst].type = "blocking" THEN "blocked" ELSE "start"
  /\ UNCHANGED <<proxyVars, main, failed, document, country, restricted, read, worst>>

Gate ==
  \/ \E source \in Sources : Fails(source)
  \/ PrimaryAnswers \/ CacheAnswers \/ GithubAnswers
  \/ DetectCountry
  \/ \E listed \in SUBSET Countries : CheckCountry(listed)
  \/ ClockFails
  \/ \E c \in Constraints : CheckConstraint(c)
  \/ Conclude

-----------------------------------------------------------------------------

Fetching == gate \in Sources

Merge ==
  /\ main < MaxDocuments
  /\ main' = main + 1
  /\ UNCHANGED <<proxyVars, gateVars>>

\* The program asks the proxy once; others ask it at any time.
MayAsk(r) == r = Client => gate = "cache"

World ==
  /\ Fetching
  /\ \/ Merge
     \/ /\ \/ Tick
           \/ Deploy(main)
           \/ Recycle
           \/ \E r \in Requests : MayAsk(r) /\ (Hit(r) \/ Miss(r))
           \/ \E r \in Requests : Handle(r)
           \/ \E r \in Requests \ {Client} : Finish(r)
        /\ UNCHANGED <<main, gateVars>>

Next == Gate \/ World

Spec == Init /\ [][Next]_vars

\* Every request of the program has a timeout, and what follows waits for nothing.
FairSpec == Spec /\ WF_vars(Gate)

-----------------------------------------------------------------------------
(***************************************************************************)
(* Properties                                                              *)
(***************************************************************************)

\* The constraints looked at that the program violates.
Violated == {i \in 1..Len(read) : /\ Active(read[i])
                                  /\ read[i].version # None
                                  /\ Current < read[i].version}

Severity == [blocking |-> 3, warning |-> 2, notice |-> 1]

\* Of equal severity the last is shown, of warnings the first.
Outranks(i, j) ==
  \/ Severity[read[i].type] > Severity[read[j].type]
  \/ /\ read[i].type = read[j].type
     /\ IF read[i].type = "warning" THEN i < j ELSE i > j

\* "Check all version constraints and return the most severe violation": the
\* loop has it, in whatever order the constraints come and whichever are active.
MostSevereFound ==
  IF Violated = {} THEN worst = 0
  ELSE worst \in Violated /\ \A i \in Violated \ {worst} : Outranks(worst, i)

\* An active constraint whose version does not parse.
Unparsable(i) == Active(read[i]) /\ read[i].version = None

\* The program starts only if nothing it has read forbids it, and exits only for
\* the reason it gives: a violated blocking constraint, an active one that does
\* not parse, a clock that cannot be read before the first of them, a country on
\* the list, or no document from any of the three sources.
VerdictJustified ==
  /\ verdict \in {"start", "blocked", "no_clock", "unparsable"} =>
       document # None /\ country \notin restricted
  /\ verdict \in {"start", "blocked"} => \A i \in 1..Len(read) : ~Unparsable(i)
  /\ verdict = "start"      => \A i \in Violated : read[i].type # "blocking"
  /\ verdict = "blocked"    => \E i \in Violated : read[i].type = "blocking"
  /\ verdict = "unparsable" => \E i \in 1..Len(read) : Unparsable(i)
  /\ verdict = "no_clock"   => read = <<>>
  /\ verdict = "restricted" => document # None /\ country \in restricted
  /\ verdict = "unverified" => document = None /\ failed = Sources

\* The gate opens or the program exits, whatever the sources do.
GateEnds == <>(gate = "decided")
=============================================================================
