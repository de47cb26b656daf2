------------------------------ MODULE Backends ------------------------------
(***************************************************************************)
(* Which agent backend a session, a curator query or a branch name runs    *)
(* on, and in which directory: the validated configuration (config.py) and *)
(* the places that resolve a backend from it.  A directory is given by     *)
(* what the configuration checks of it: missing, plain, or inside a git    *)
(* checkout.                                                               *)
(***************************************************************************)
EXTENDS Naturals, FiniteSets

CONSTANTS Backends, None

ASSUME BackendsAssumption == None \notin Backends

VARIABLE config      \* of the running server; None when it is down

Dirs == {"plain", "git", None}

Config == [backend   : Backends \cup {None},       \* ATELIER_AGENT_BACKEND, None for "none"
           allowed   : SUBSET Backends,            \* ATELIER_AGENT_BACKENDS_ALLOWED
           cwd       : Dirs,
           cwdOf     : [Backends -> Dirs],
           isolation : {"per_session", "shared"},
           gitOK     : BOOLEAN,                    \* ATELIER_ALLOW_AGENT_CWD_INSIDE_GIT
           distill   : BOOLEAN,
           distillUrl : BOOLEAN,
           resolver  : {"echo", "distill"}]

CwdFor(c, b) == IF c.cwdOf[b] # None THEN c.cwdOf[b] ELSE c.cwd

ResolvedBackends(c) ==
  IF c.allowed # {} THEN c.allowed
  ELSE IF c.backend = None THEN {} ELSE {c.backend}

\* Mutant: only the default backend's directory is looked at.
IsolatedDefault(c) ==
  c.isolation = "per_session" /\ ~c.gitOK /\ c.backend # None => CwdFor(c, c.backend) # "git"

Isolated(c) ==
  c.isolation = "per_session" /\ ~c.gitOK
    => \A b \in ResolvedBackends(c) : CwdFor(c, b) # "git"

\* Mutant: a directory is required for the default backend only.
ValidForDefault(c) ==
  /\ c.backend # None /\ c.allowed # {} => c.backend \in c.allowed
  /\ c.backend # None => CwdFor(c, c.backend) # None
  /\ c.distill => c.distillUrl
  /\ c.resolver = "distill" => c.distill
  /\ Isolated(c)

\* __post_init__
Valid(c) ==
  /\ \A b \in c.allowed : CwdFor(c, b) # None
  /\ c.backend # None /\ c.allowed # {} => c.backend \in c.allowed
  /\ c.backend # None /\ c.allowed = {} => CwdFor(c, c.backend) # None
  /\ c.distill => c.distillUrl
  /\ c.resolver = "distill" => c.distill
  /\ Isolated(c)

Enabled(c) == c.backend # None \/ ResolvedBackends(c) # {}

\* Mutant: with no default, any of the allowed backends will do.
AnyBackend(c, requested) ==
  CASE requested # None -> requested
    [] requested = None /\ c.backend # None -> c.backend
    [] OTHER -> IF ResolvedBackends(c) = {} THEN None ELSE CHOOSE b \in ResolvedBackends(c) : TRUE

\* Runner, curator and namer each have this method; None where it raises.
ResolveBackend(c, requested) ==
  CASE requested # None -> requested
    [] requested = None /\ c.backend # None -> c.backend
    [] OTHER -> IF Cardinality(ResolvedBackends(c)) = 1
                  THEN CHOOSE b \in ResolvedBackends(c) : TRUE
                  ELSE None

\* What POST /sessions, /fork and /branch take.
Accepted(c, requested) == requested = None \/ requested \in ResolvedBackends(c)

\* The default GET /agent/backends shows to the picker.
AdvertisedDefault(c) ==
  IF c.backend = None /\ Cardinality(ResolvedBackends(c)) = 1
    THEN CHOOSE b \in ResolvedBackends(c) : TRUE
    ELSE c.backend

\* A loom session can be opened: a backend is found and it has a directory.
Startable(c, requested) ==
  /\ ResolveBackend(c, requested) # None
  /\ CwdFor(c, ResolveBackend(c, requested)) # None

=============================================================================
