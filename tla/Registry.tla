------------------------------ MODULE Registry ------------------------------
(***************************************************************************)
(* lava/readers/model_registry.py: resolve_registry locks each candidate   *)
(* of a configuration to the revision its repository has on the hub.  A    *)
(* lock that exists is extended, never resolved again, whatever has become *)
(* of the configuration and of the hub since, and also while the command   *)
(* reads them.  One resolution at a time; it may fail or be killed at any  *)
(* step.  A lock and a configuration are their own digests.                *)
(***************************************************************************)
EXTENDS Ordering, Sequences, SequencesExt

CONSTANTS Configs,          \* configurations: sequences of [key, repository, license, terms]
          Licenses,         \* what a repository may say of its license
          MaxFetchAttempts, \* _MAX_FETCH_ATTEMPTS
          MaxEdits,         \* bound on changes of the configuration
          MaxMoves,         \* bound on new revisions on the hub
          NoRegistry

Repositories == UNION {{c[i].repository : i \in DOMAIN c} : c \in Configs}
Candidates   == UNION {ToSet(c) : c \in Configs}
Keys(rows)   == {rows[i].key : i \in DOMAIN rows}

\* The rows there may be in a lock.
LockRow == [key : {c.key : c \in Candidates}, repository : Repositories, revision : Nat,
        license : {c.license : c \in Candidates}, terms : {c.terms : c \in Candidates}]

\* _candidate_contract: a row without what was observed.
Contract(row) == [key |-> row.key, repository |-> row.repository, license |-> row.license, terms |-> row.terms]

\* load_candidates: some candidates, each with a key of its own.
ASSUME RegistryAssumption ==
  /\ \A c \in Configs : /\ c \in Seq(ToSet(c)) /\ c # << >>
                        /\ \A i \in DOMAIN c : c[i] = Contract(c[i])
                        /\ \A i, j \in DOMAIN c : c[i].key = c[j].key => i = j
  /\ NoRegistry \notin Seq(LockRow)
  /\ MaxFetchAttempts \in Nat \ {0} /\ MaxEdits \in Nat /\ MaxMoves \in Nat

VARIABLES config,   \* the configuration file
          hub,      \* by repository: [revision, license, open]
          registry, \* the lock file
          resolver, \* the command
          edited, moved

registryVars == <<config, hub, registry, resolver, edited, moved>>

NoResolver == [pc |-> "idle", parent |-> NoRegistry, wanted |-> << >>, hash |-> << >>, rows |-> << >>, tries |-> 0]

Unlocked == registry = NoRegistry /\ resolver = NoResolver /\ edited = 0 /\ moved = 0

Hubs == [Repositories -> [revision : {1}, license : Licenses, open : BOOLEAN]]

Unresolved == config \in Configs /\ hub \in Hubs /\ Unlocked

\* load_registry_lock, for locks of the schema that is written here.
Loads(lock) ==
  /\ Cardinality(Keys(lock.rows)) = Len(lock.rows)
  /\ lock.kept \cap lock.added = {} /\ lock.kept \cup lock.added = Keys(lock.rows)
  /\ IF lock.parent = NoRegistry THEN lock.depth = 0 /\ lock.kept = {} ELSE lock.depth >= 1

Parent     == resolver.parent
ParentRows == IF Parent = NoRegistry THEN << >> ELSE Parent.rows
Abandon    == resolver' = NoResolver
Elsewhere  == UNCHANGED <<config, hub, edited, moved>>

\* resolve_registry: extend the lock that is there, or make the first one.
ReadLock ==
  /\ resolver.pc = "idle"
  /\ registry # NoRegistry => Loads(registry)
  /\ resolver' = [NoResolver EXCEPT !.pc = "read", !.parent = registry]
  /\ Elsewhere /\ UNCHANGED registry

\* A fault: it is enough that the key is there.
KeyKept == \A i \in DOMAIN ParentRows : ParentRows[i].key \in Keys(config)

\* Each frozen key is still a candidate, with the contract it was frozen with.
Undrifted == \A i \in DOMAIN ParentRows : \E j \in DOMAIN config : config[j] = Contract(ParentRows[i])

\* The candidates that have no row yet, in their order.
Unlisted == LET new == Ascending({i \in DOMAIN config : config[i].key \notin Keys(ParentRows)}) IN
            [n \in DOMAIN new |-> config[new[n]]]

ReadConfig ==
  /\ resolver.pc = "read"
  /\ IF Undrifted
       THEN resolver' = [resolver EXCEPT !.pc = IF Parent = NoRegistry THEN "resolve" ELSE "hash",
              !.wanted = Unlisted]
       ELSE Abandon
  /\ Elsewhere /\ UNCHANGED registry

\* The digest of the configuration is that of another read of the file: before
\* anything is resolved by an extension, when all is resolved by the first lock.
HashConfig ==
  /\ resolver.pc = "hash"
  /\ IF Parent # NoRegistry /\ resolver.wanted = << >> THEN Abandon  \* nothing new, or an error
     ELSE resolver' = [resolver EXCEPT !.hash = config,
                                       !.pc = IF Parent = NoRegistry THEN "replace" ELSE "resolve"]
  /\ Elsewhere /\ UNCHANGED registry

wanted == resolver.wanted[Len(resolver.rows) + 1]

\* The row is added; then the next candidate, or the end of the resolution.
Resolved(found) ==
  LET row == [key |-> wanted.key, repository |-> wanted.repository, license |-> wanted.license,
              terms |-> wanted.terms, revision |-> found.revision] IN
  resolver' = [resolver EXCEPT !.rows = Append(@, row), !.tries = 0,
    !.pc = IF Len(resolver.rows) + 1 < Len(resolver.wanted) THEN "resolve"
           ELSE IF Parent = NoRegistry THEN "hash" ELSE "replace"]

\* A fault: only the candidates of this run share what was fetched.
KnownHere(repository) == {row \in ToSet(resolver.rows) : row.repository = repository}

\* The rows from which a repository is known: the lock's, else this run's.
Known(repository) == LET Of(rows) == {row \in ToSet(rows) : row.repository = repository} IN
                     IF Of(ParentRows) # {} THEN Of(ParentRows) ELSE Of(resolver.rows)

\* A repository that is frozen, or was fetched by this run, keeps its revision
\* if there is one and the candidate expects the license that was observed.
Reuse ==
  /\ resolver.pc = "resolve"
  /\ Known(wanted.repository) # {}
  /\ LET known == Known(wanted.repository) IN
     IF /\ Cardinality({row.revision : row \in known}) = 1
        /\ {row.license : row \in known} = {wanted.license}
       THEN \E row \in known : Resolved(row)
       ELSE Abandon
  /\ Elsewhere /\ UNCHANGED registry

\* A fetch that succeeds, and what resolve_candidate and ResolvedModel ask of it.
Fetch ==
  /\ resolver.pc = "resolve"
  /\ Known(wanted.repository) = {}
  /\ LET found == hub[wanted.repository] IN
     IF found.license = wanted.license /\ found.open THEN Resolved(found) ELSE Abandon
  /\ Elsewhere /\ UNCHANGED registry

\* _fetch_with_retry: errors of the connection and some statuses are retried.
FetchFails ==
  /\ resolver.pc = "resolve"
  /\ Known(wanted.repository) = {}
  /\ IF resolver.tries + 1 < MaxFetchAttempts THEN resolver' = [resolver EXCEPT !.tries = @ + 1] ELSE Abandon
  /\ Elsewhere /\ UNCHANGED registry

\* The body of a first lock ...
FirstLock == [config |-> resolver.hash, parent |-> NoRegistry, depth |-> 0,
              kept |-> {}, added |-> Keys(resolver.rows), rows |-> resolver.rows]

\* ... and of one that extends the lock that was read.
ExtendedLock == [config |-> resolver.hash, parent |-> Parent.rows, depth |-> Parent.depth + 1,
                 kept |-> Keys(Parent.rows), added |-> Keys(resolver.rows),
                 rows |-> Parent.rows \o resolver.rows]

\* _atomic_write_lock: the file is replaced at once, whatever is there by now.
ReplaceLock ==
  /\ resolver.pc = "replace"
  /\ registry' = IF Parent = NoRegistry THEN FirstLock ELSE ExtendedLock
  /\ Abandon
  /\ Elsewhere

\* Killed, or an error that is not retried.
ResolverStops ==
  /\ resolver.pc # "idle"
  /\ Abandon
  /\ Elsewhere /\ UNCHANGED registry

EditConfig ==
  /\ edited < MaxEdits /\ edited' = edited + 1
  /\ config' \in Configs \ {config}
  /\ UNCHANGED <<hub, registry, resolver, moved>>

\* A new revision, perhaps with another license or behind a gate.
RepositoryMoves ==
  /\ moved < MaxMoves /\ moved' = moved + 1
  /\ \E r \in Repositories, l \in Licenses, open \in BOOLEAN :
       hub' = [hub EXCEPT ![r] = [revision |-> hub[r].revision + 1, license |-> l, open |-> open]]
  /\ UNCHANGED <<config, registry, resolver, edited>>

RegistryNext == \/ ReadLock \/ ReadConfig \/ HashConfig \/ Reuse \/ Fetch \/ FetchFails
                \/ ReplaceLock \/ ResolverStops \/ EditConfig \/ RepositoryMoves

RegistrySpec == Unresolved /\ [][RegistryNext]_registryVars

-----------------------------------------------------------------------------
\* Whatever is edited, moves or dies, a new lock loads, keeps the rows of the
\* old one as they were and first, names it as its parent, and locks candidates
\* of one repository to one revision with the license each expects; its rows are
\* the candidates of one configuration, not of two.  Who loads a model by its key
\* gets the same weights for ever (resolve_registry, load_resolved_model).
Successor(old, new) ==
  /\ Loads(new)
  /\ old = NoRegistry => new.parent = NoRegistry
  /\ old # NoRegistry => new.parent = old.rows /\ IsPrefix(old.rows, new.rows) /\ new.added # {}
  /\ \A i, j \in DOMAIN new.rows : new.rows[i].repository = new.rows[j].repository =>
       new.rows[i].revision = new.rows[j].revision /\ new.rows[i].license = new.rows[j].license
  /\ \E c \in Configs : {Contract(new.rows[i]) : i \in DOMAIN new.rows} = ToSet(c)

RegistryIsAppendOnly == [][registry' # registry => Successor(registry, registry')]_registryVars
=============================================================================
