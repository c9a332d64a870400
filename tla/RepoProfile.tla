----------------------------- MODULE RepoProfile -----------------------------
(***************************************************************************)
(* What a repository looks like (index/repo_profile.rs): the role of each  *)
(* file, told from its path, the archetype of the whole, told from how     *)
(* many files play which role, and what a role adds to a score.            *)
(***************************************************************************)
EXTENDS Integers, FiniteSets

CONSTANTS
  Holds(_, _)   (* Holds(f, "dir/"): f lies in dir; Holds(f, "=name"): it is *)
                (* named so; Holds(f, part): its name or path has the part   *)

In(f, dirs) == \E d \in dirs : Holds(f, d)
IsTestPath(f) ==
  In(f, {"tests/", "test/", "spec/", "_test.rs", "_spec.rs", ".spec.ts", ".test.ts", "tests.rs", "test_"})
IsConfigPath(f) ==
  In(f, {"config/", "configs/", "settings/", "env/", "options/", "=config.rs", "=config.ts",
         "=settings.rs", ".toml", ".yaml", ".yml", ".json"})
IsHandlerPath(f) ==
  In(f, {"handler/", "handlers/", "route/", "routes/", "controller/", "controllers/", "api/",
         "handler", "route", "controller"})
IsInfraPath(f) ==
  In(f, {"infra/", "db/", "storage/", "repo/", "client/", "queue/", "cache/", "fs/",
         "client", "repo", "storage"})
IsEntrypointPath(f) ==
  In(f, {"=main.rs", "=main.ts", "=main.js", "=main.py", "=main.go", "=index.ts", "=index.js", "/bin/"})
IsCliPath(f) == In(f, {"bin/", "cmd/", "cli/", "=cli.rs"})
IsBootstrapPath(f) ==
  In(f, {"=main.rs", "=app.rs", "=server.rs", "=index.ts", "=index.js", "bootstrap/"})
IsServicePath(f) ==
  In(f, {"service/", "services/", "domain/", "worker/", "task/", "job/", "service", "worker", "job"})

(* The first role whose marks the path bears.                              *)
RolesInTurn ==
  <<"test", "config", "handler", "infra", "entrypoint", "cli", "bootstrap", "library", "service", "unknown">>
ClassifyPathRole(f) ==
  LET is == <<IsTestPath(f), IsConfigPath(f), IsHandlerPath(f), IsInfraPath(f), IsEntrypointPath(f),
              IsCliPath(f), IsBootstrapPath(f), Holds(f, "=lib.rs"), IsServicePath(f), TRUE>>
  IN RolesInTurn[CHOOSE i \in DOMAIN is : is[i] /\ \A j \in 1..(i - 1) : ~is[j]]

-----------------------------------------------------------------------------
CountRole(roles, of) == Cardinality({f \in DOMAIN roles : roles[f] \in of})
FrontendSignals(files) ==
  Cardinality({f \in files : In(f, {".tsx", ".jsx", ".svelte", "/components/", "/pages/", "/app/", "/ui/"})})
Entrypoints(roles) == {f \in DOMAIN roles : roles[f] \in {"entrypoint", "bootstrap", "cli"}}

ClassifyRepoArchetype(roles) ==
  LET files == Cardinality(DOMAIN roles)
      service == CountRole(roles, {"handler", "service", "config"})
      cli == CountRole(roles, {"entrypoint", "cli", "bootstrap"})
      infra == CountRole(roles, {"infra"})
      frontend == FrontendSignals(DOMAIN roles)
      library == CountRole(roles, {"library"})
  IN IF CountRole(roles, {"test"}) * 3 >= (IF files = 0 THEN 1 ELSE files) THEN "test_heavy"
     ELSE IF infra >= 3 /\ infra >= service THEN "infra"
     ELSE IF frontend >= 3 /\ frontend >= service THEN "frontend"
     ELSE IF service >= 3 /\ service >= cli THEN "service"
     ELSE IF cli >= 1 /\ cli >= library THEN "cli"
     ELSE IF library >= 1 /\ service + cli + infra + frontend = 0 THEN "library"
     ELSE IF files > 1 /\ Cardinality(Entrypoints(roles)) > 1 THEN "monorepo" ELSE "unknown"

BuildRepoProfile(files) ==
  LET roles == [f \in files |-> ClassifyPathRole(f)]
  IN [roles |-> roles, archetype |-> ClassifyRepoArchetype(roles)]

-----------------------------------------------------------------------------
(* A file the profile does not know is classified by its path.             *)
RoleOf(profile, f) == IF f \in DOMAIN profile.roles THEN profile.roles[f] ELSE ClassifyPathRole(f)

RoleWorth ==
  [entrypoint |-> 14, bootstrap |-> 12, cli |-> 13, config |-> 10, handler |-> 11, service |-> 9,
   infra |-> 8, test |-> 5, library |-> 3, unknown |-> 0]
Favoured ==
  [cli |-> <<8, {"entrypoint", "cli", "bootstrap"}>>,
   service |-> <<8, {"handler", "bootstrap", "config", "service"}>>,
   frontend |-> <<6, {"entrypoint", "bootstrap", "handler", "config"}>>,
   infra |-> <<8, {"infra", "config", "bootstrap"}>>,
   library |-> <<6, {"library", "bootstrap"}>>,
   test_heavy |-> <<10, {"test"}>>]
Tracey == {"trace", "flow", "path", "call"}
Impact == {"impact", "blast", "break", "refactor"}
Configy == {"config", "env", "setting", "option"}

RoleBoost(role, archetype, words) ==
  LET when(asked, roles, worth) == IF words \cap asked # {} /\ role \in roles THEN worth ELSE 0
  IN RoleWorth[role]
     + (IF archetype \in DOMAIN Favoured /\ role \in Favoured[archetype][2]
        THEN Favoured[archetype][1] ELSE 0)
     + when(Tracey, {"entrypoint", "bootstrap", "cli"}, 8)
     + when(Impact, {"test", "config", "bootstrap"}, 4)
     + when(Configy, {"config", "bootstrap"}, 6)
RoleBoostForPath(profile, f, words) == RoleBoost(RoleOf(profile, f), profile.archetype, words)
=============================================================================
