---- MODULE Providers ----
(***************************************************************************)
(* The providers a command may use (providers/discovery.py, registry.py,   *)
(* orchestration/registry.py): those built in and those of installed       *)
(* packages.  Operators without state; nothing of it changes while a       *)
(* command runs.                                                           *)
(*                                                                         *)
(* A package has the name of its distribution, the provider it registers,  *)
(* whether it loads (imports, is callable and returns a registration),     *)
(* whether it is made for this version of the SDK, and capabilities.       *)
(***************************************************************************)
EXTENDS Naturals, SequencesExt

BuiltIn(provider, capabilities) ==
    [dist |-> "core", provider |-> provider, loads |-> TRUE, compatible |-> TRUE,
     capabilities |-> capabilities]

\* builtin_provider_registrations, in their order.
BuiltIns == <<BuiltIn("collibra", {"target"}),
              BuiltIn("dbt", {"graph", "observations"}),
              BuiltIn("odcs", {"graph", "observations"}),
              BuiltIn("openlineage", {"graph", "observations"}),
              BuiltIn("postgresql", {"metadata"})>>

NoRegistry == [refused |-> TRUE, providers |-> [p \in {} |-> p]]
EmptyRegistry == [NoRegistry EXCEPT !.refused = FALSE]

\* ProviderRegistry.register: neither the first nor the last of two wins.
Register(registry, package) ==
    IF ~package.compatible \/ package.provider \in DOMAIN registry.providers
    THEN [registry EXCEPT !.refused = TRUE]
    ELSE [registry EXCEPT !.providers = (package.provider :> package) @@ @]

LoadedOnly(packages) ==             \* mutant: skips the packages that do not load
    FoldLeft(Register, EmptyRegistry, BuiltIns \o SelectSeq(packages, LAMBDA p : p.loads))

\* discover_provider_registrations and build_provider_registry: one package that
\* does not load or register leaves no registry.  The names of the distributions
\* and of the providers decide the order.
RegistryOf(packages) ==
    LET registry == FoldLeft(Register, EmptyRegistry, BuiltIns \o packages)
    IN  IF registry.refused \/ \E n \in DOMAIN packages : ~packages[n].loads
        THEN NoRegistry ELSE registry
====
