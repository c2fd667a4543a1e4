--------------------------- MODULE MCManifestWatcher ---------------------------
(* A JavaScript workspace beside a Rust crate; a .NET solution and a project that *)
(* share their package versions; a Gradle build beside a Rust workspace, with a    *)
(* file more than are watched; and a Rust workspace that is a member of its own.   *)
EXTENDS ManifestWatcher, TLC

Home == <<>>
A == <<1>>
B == <<2>>
A1 == <<1, 1>>
Holds(deps, members) == [bad |-> FALSE, deps |-> deps, members |-> members]
Broken(members) == [bad |-> TRUE, deps |-> {}, members |-> members]

Js == File(A, "package.json")
Member == File(A1, "package.json")
Crate == File(B, "Cargo.toml")
Pom == File(A, "pom.xml")
Sln == File(A, "x.sln")
Cs(d) == File(d, "a.csproj")
Catalog == File(A, "libs.versions.toml")
Settings == File(A, "settings.gradle")
Build(d) == File(d, "build.gradle")
B1 == <<2, 1>>
Props == File(Home, "Directory.Packages.props")

Solution ==
    (Sln :> Holds({}, <<Cs(A), Cs(A1)>>)) @@ (Cs(A) :> Holds({"d1"}, <<>>)) @@ (Cs(A1) :> Holds({"d2"}, <<>>))
        @@ (Cs(B) :> Holds({"d2"}, <<>>)) @@ (Props :> Holds({}, <<>>))
MCLayouts ==
    {(Js :> Holds({"d1"}, <<A1>>)) @@ (Member :> Holds({"d2"}, <<>>)) @@ (Crate :> Holds({"d2"}, <<>>)),
     Solution,
     (Catalog :> Holds({"d1"}, <<>>)) @@ (Settings :> Holds({}, <<A1>>)) @@ (Build(A) :> Holds({}, <<>>))
        @@ (Build(A1) :> Holds({"d2"}, <<>>)) @@ (Crate :> Holds({}, <<B1>>)) @@ (File(B1, "Cargo.toml") :> Holds({}, <<>>)),
     (Js :> Holds({"d1"}, <<>>)) @@ (Crate :> Holds({"d2"}, <<B, B1>>)) @@ (File(B1, "Cargo.toml") :> Holds({}, <<>>))}
MCVersions ==
    (Js :> {Holds({"d1"}, <<A1>>), Holds({}, <<>>)})
      @@ (Member :> {Holds({}, <<>>), Broken(<<>>)})
      @@ (Crate :> {Holds({}, <<>>), Holds({"d2"}, <<B>>)}) @@ (Pom :> {Holds({"d1"}, <<>>)})
      @@ (Sln :> {Holds({}, <<Cs(A), Cs(A1)>>), Holds({}, <<Cs(A)>>), Holds({}, <<Cs(A1)>>)})
      @@ (Cs(A) :> {Holds({}, <<>>)}) @@ (Cs(B) :> {Holds({"d1"}, <<>>)})
      @@ (Props :> {Broken(<<>>)}) @@ (Catalog :> {Holds({}, <<>>)}) @@ (Settings :> {Holds({}, <<>>)})
      @@ (Build(A1) :> {Holds({}, <<>>)})

Says(status, links) == [status |-> status, links |-> links]
MCAnswers == [d \in {"d1", "d2"} |->
    {Says("missing", <<>>), Says("down", <<>>), Says("found", <<[high |-> TRUE, repo |-> "r"]>>)}]
MCEcosystemOf == [d1 |-> "npm", d2 |-> "maven"]
MCGuessOf == [d1 |-> "r", d2 |-> "none"]

\* The hypotheses of the theorem about ViewIsCurrent hold here.
ASSUME InstanceAssumption == Uncut /\ SteadyRepositories
=============================================================================
