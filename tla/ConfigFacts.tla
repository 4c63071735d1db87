---------------------------- MODULE ConfigFacts ----------------------------
(***************************************************************************)
(* What the committed files of a repository say of its architecture        *)
(* (internal/derive, internal/detect, and the extractors of                *)
(* internal/services): the files worth reading, the resources and hosts of *)
(* its configuration, the contracts it publishes, the packages it names,   *)
(* and the CI and test signals of its listing.                             *)
(*                                                                         *)
(* A file is a record: dir, the segments of its directory; stem, mark and  *)
(* ext, the parts of its name the code asks about (docker-compose .test.   *)
(* yml); size in kilobytes; and one field for each thing a parser reads in *)
(* it.  A host is the sequence of its labels.  Confidence is in percent.   *)
(***************************************************************************)
EXTENDS Integers, Sequences, SequencesExt

ConfidenceExactName == 100
ConfidenceDeclaredHost == 85
ConfidenceSharedLocator == 85
ConfidenceComposeTopology == 75
ConfidenceLocalEvidence == 70
ConfidenceExtensionSniff == 60

None == "none"
NoPort == -1
NoCount == -1
maxEvidence == 3
MaxFileKB == 256

---------------------------------------------------------------------------
(* Names of files. *)

IsYAML(f) == f.ext \in {"yml", "yaml"}
Segments(f) == {f.dir[i] : i \in DOMAIN f.dir}

IsComposeFile(f) == IsYAML(f) /\ f.stem \in {"docker-compose", "compose"}

IsTestCompose(f) == f.mark \in {".test.", ".tests.", ".ci.", ".e2e.", "-test.", "-ci."}

IsHelmChart(f) == IsYAML(f) /\ f.stem = "chart" /\ f.mark = "."

IsK8sManifest(f) ==
    /\ IsYAML(f)
    /\ ~IsComposeFile(f) /\ ~IsHelmChart(f)
    /\ Segments(f) \cap {"k8s", "kubernetes", "manifests", "deploy", "deployment",
                         "deployments", "kustomize", "overlays", "base"} # {}

IsHelmValues(f) == IsYAML(f) /\ f.stem = "values"

IsDotEnvExample(f) == f.stem = "env" /\ f.ext \in {"example", "sample", "template", "dist", "defaults"}

IsConfigCandidate(f) ==
    IsComposeFile(f) \/ IsHelmChart(f) \/ IsHelmValues(f) \/ IsK8sManifest(f) \/ IsDotEnvExample(f)

IsSpecCandidate(f) ==
    \/ f.ext \in {"proto", "graphql", "graphqls", "gql"}
    \/ /\ f.ext \in {"yaml", "yml", "json"}
       /\ \/ f.stem \in {"openapi", "swagger", "asyncapi", "api"} /\ f.mark = "."
          \/ Segments(f) \cap {"openapi", "asyncapi", "apis"} # {}
          \/ Len(f.dir) > 1 /\ f.dir[Len(f.dir)] = "api" /\ f.dir[Len(f.dir) - 1] \in {"docs", "doc"}

(* The ecosystem whose parser reads the file. *)
ParserFor(f) ==
    CASE f.stem = "go" /\ f.ext = "mod" -> "go"
      [] f.stem = "package" /\ f.ext = "json" -> "npm"
      [] f.stem = "pom" /\ f.ext = "xml" -> "maven"
      [] f.stem = "pyproject" /\ f.ext = "toml" -> "python"
      [] f.stem = "Cargo" /\ f.ext = "toml" -> "cargo"
      [] f.ext = "txt" /\ (f.stem = "requirements" \/ (f.dir # <<>> /\ Last(f.dir) = "requirements")) -> "pip"
      [] f.ext = "csproj" -> "nuget"
      [] OTHER -> None

IsManifest(f) == ParserFor(f) # None

IsVendored(f) ==
    \/ Segments(f) \cap {"node_modules", "vendor", "third_party", "dist", "deps", "env"} # {}
    \/ \E i \in 1..(Len(f.dir) - 1) : f.dir[i] \in {"test", "tests", "spec", "specs"} /\ f.dir[i + 1] = "fixtures"

(* A provider that reports no size (0) leaves the file readable. *)
Readable(f) == f.size <= MaxFileKB

Shortlist(tree, Match(_)) == SelectSeq(tree, LAMBDA f : ~IsVendored(f) /\ Readable(f) /\ Match(f))

---------------------------------------------------------------------------
(* Hosts, connection strings and values. *)

PlaceholderHosts == {<<"localhost">>, <<"127", "0", "0", "1">>, <<"example", "com">>, <<"changeme">>}
FillIns == {"your-db", "my-db", "changeme"}
Templated == {"${HOST}", "svc-${ENV}"}
Numerals == {"0", "1", "3", "11", "127"}

IsPlaceholderHost(h) ==
    \/ h = <<>> \/ h \in PlaceholderHosts
    \/ h[1] \in FillIns
    \/ \E i \in DOMAIN h : h[i] \in Templated

Schemes == [postgres |-> "postgresql", postgresql |-> "postgresql", redis |-> "redis",
            kafka |-> "kafka", amqp |-> "rabbitmq"]

Locator(engine, host, port, namespace) ==
    [engine |-> engine, host |-> host, port |-> port, namespace |-> namespace]

IsShared(l) == ~IsPlaceholderHost(l.host)

ValidPort(p) == p \in 1..65535

NamespaceFromDSN(engine, path) ==
    IF engine \in {"rabbitmq", "redis"} THEN path ELSE SubSeq(path, 1, IF path = <<>> THEN 0 ELSE 1)

(* Only the first endpoint of a list is kept, and nothing that follows it. *)
ParseDSN(v) ==
    IF v.form # "url" \/ v.scheme \notin DOMAIN Schemes THEN {}
    ELSE LET engine == Schemes[v.scheme]
             first == v.endpoints[1]
             path == IF Len(v.endpoints) = 1 THEN v.path ELSE <<>>
         IN {Locator(engine, first.host, IF ValidPort(first.port) THEN first.port ELSE NoPort,
                     NamespaceFromDSN(engine, path))}

(* The host as a set, empty when it is refused. *)
NormalizeHost(h) ==
    IF IsPlaceholderHost(h) \/ \A i \in DOMAIN h : h[i] \in Numerals THEN {} ELSE {h}

HostFromValue(v) ==
    LET first == v.endpoints[1]
    IN CASE v.form = "url" /\ v.scheme \in {"http", "https"} -> NormalizeHost(first.host)
         [] v.form = "bare" /\ first.port # NoPort ->
                IF ValidPort(first.port) THEN NormalizeHost(first.host) ELSE {}
         [] v.form = "bare" /\ Len(first.host) > 1 -> NormalizeHost(first.host)
         [] OTHER -> {}

ServiceLabel(h) == <<h[1]>>

Images == [postgres |-> "postgresql", postgresql |-> "postgresql", pgvector |-> "postgresql",
           redis |-> "redis", kafka |-> "kafka"]

(* An image is its repository path; registry, digest and tag are cut off.  *)
(* The base name counts when the whole path is unknown.                    *)
EngineForImage(image) == IF image # <<>> /\ Last(image) \in DOMAIN Images THEN Images[Last(image)] ELSE None

SubchartEngines == [postgresql |-> "postgresql", redis |-> "redis", kafka |-> "kafka"]

---------------------------------------------------------------------------
(* The collector. *)

Max2(a, b) == IF a > b THEN a ELSE b

NewResourceCollector ==
    [resources |-> {}, deps |-> {}, hints |-> {}, services |-> {}, hosts |-> {}, consumed |-> {}]

Finding(l, scoped, name, rule, confidence) ==
    [locator |-> l, scoped |-> scoped, name |-> name, rule |-> rule, confidence |-> confidence]

ResourceKey(f) == IF f.scoped THEN <<f.locator.engine, f.name>> ELSE f.locator

AppendEvidence(evidence, path) ==
    IF Len(evidence) >= maxEvidence \/ Contains(evidence, path) THEN evidence ELSE Append(evidence, path)

(* A finding seen twice keeps the higher confidence and both paths. *)
AddResource(c, f, path) ==
    LET same == {x \in c.resources : x.finding.scoped = f.scoped /\ ResourceKey(x.finding) = ResourceKey(f)}
        Merged(x) == [finding |-> IF f.confidence > x.finding.confidence
                                  THEN [x.finding EXCEPT !.confidence = f.confidence, !.rule = f.rule]
                                  ELSE x.finding,
                      evidence |-> AppendEvidence(x.evidence, path)]
    IN [c EXCEPT !.resources =
            IF same = {} THEN @ \union {[finding |-> f, evidence |-> <<path>>]}
            ELSE (@ \ same) \union {Merged(x) : x \in same}]

HostFinding(h, var, path, rule, confidence, test) ==
    [host |-> h, var |-> var, path |-> path, rule |-> rule, confidence |-> confidence, test |-> test]

\* Mutant: the first sighting decides.
AddConsumedHostFirst(c, f) ==
    IF IsPlaceholderHost(f.host) \/ \E x \in c.consumed : x.host = f.host /\ x.var = f.var THEN c
    ELSE [c EXCEPT !.consumed = @ \union {f}]

(* A sighting outside the tests replaces the path, and clears the mark. *)
AddConsumedHost(c, f) ==
    LET same == {x \in c.consumed : x.host = f.host /\ x.var = f.var}
        Stronger(x) == IF f.confidence > x.confidence
                       THEN [x EXCEPT !.confidence = f.confidence, !.rule = f.rule] ELSE x
        Merged(x) == IF f.test THEN Stronger(x)
                     ELSE [Stronger(x) EXCEPT !.test = FALSE, !.path = f.path]
    IN IF IsPlaceholderHost(f.host) THEN c
       ELSE [c EXCEPT !.consumed = IF same = {} THEN @ \union {f}
                                   ELSE (@ \ same) \union {Merged(x) : x \in same}]

AddConsumedService(c, name, path, test) ==
    AddConsumedHost(c, HostFinding(<<name>>, None, path, "depends_on", ConfidenceComposeTopology, test))

ScanEntry(c, entry, path, test) ==
    LET hinted == IF entry.key.hint = None THEN c
                  ELSE [c EXCEPT !.hints = @ \union {entry.key.hint}]
        dsn == ParseDSN(entry.value)
        Resource(l) == AddResource(hinted, Finding(l, FALSE, l.host, "dsn", ConfidenceSharedLocator), path)
        Hint(l) == [hinted EXCEPT !.hints = @ \union {l.engine}]
        Consumed(h) == AddConsumedHost(hinted,
                           HostFinding(h, entry.key.name, path, "service_host", ConfidenceDeclaredHost, test))
    IN IF entry.value.form = "empty" \/ ~entry.key.connection THEN hinted
       ELSE IF dsn # {} THEN LET l == CHOOSE l \in dsn : TRUE IN IF IsShared(l) THEN Resource(l) ELSE Hint(l)
       ELSE IF HostFromValue(entry.value) # {} THEN Consumed(CHOOSE h \in HostFromValue(entry.value) : TRUE)
       ELSE hinted

ScanEnvironment(c, env, path, test) ==
    FoldSet(LAMBDA entry, acc : ScanEntry(acc, entry, path, test), c, env)

Engine(f, name) ==
    LET s == {x \in f.services : x.name = name /\ EngineForImage(x.image) # None}
    IN IF s = {} THEN None ELSE EngineForImage((CHOOSE x \in s : TRUE).image)

ReadCompose(c, f) ==
    LET test == IsTestCompose(f)
        Declared(s, acc) ==
            LET engine == EngineForImage(s.image)
                found == IF engine = None THEN acc
                         ELSE AddResource(acc, Finding(Locator(engine, <<>>, NoPort, <<>>), TRUE,
                                  <<s.name, "local">>, "compose_image", ConfidenceLocalEvidence), f.path)
            IN ScanEnvironment(found, s.env, f.path, test)
        Depends(pair, acc) ==
            LET dep == [from |-> pair[1], to |-> pair[2], engine |-> Engine(f, pair[2]), path |-> f.path, test |-> test]
                noted == [acc EXCEPT !.deps = @ \union {dep}]
            IN IF dep.engine # None THEN noted ELSE AddConsumedService(noted, pair[2], f.path, test)
        pairs == {p \in UNION {{s.name} \X s.dependsOn : s \in f.services} : p[1] # p[2]}
    IN FoldSet(Depends, FoldSet(Declared, c, f.services), pairs)

ReadHelmChart(c, f) ==
    FoldSet(LAMBDA d, acc :
              AddResource(acc, Finding(Locator(SubchartEngines[d.name], <<>>, NoPort, <<>>), TRUE,
                  <<IF d.alias = None THEN d.name ELSE d.alias, "subchart">>, "helm_subchart", ConfidenceLocalEvidence), f.path),
            c, {d \in f.dependencies : d.name \in DOMAIN SubchartEngines})

(* One variable set by two containers keeps its last value. *)
LastOfEach(env) == {env[i] : i \in {i \in DOMAIN env : \A j \in DOMAIN env : j > i => env[j].key # env[i].key}}

(* The documents that parse are kept, whatever the others are. *)
ReadK8sManifest(c, f) ==
    LET docs == SelectSeq(f.documents, LAMBDA d : d.parses)
        Of(kind) == UNION {docs[i].names : i \in {i \in DOMAIN docs : docs[i].kind = kind}}
        env == LastOfEach(SelectSeq(FlattenSeq([i \in DOMAIN docs |-> docs[i].env]), LAMBDA e : e.value.form # "empty"))
    IN ScanEnvironment([c EXCEPT !.services = @ \union {n \in Of("service") : ~IsPlaceholderHost(n)},
                                 !.hosts = @ \union {h \in Of("ingress") : ~IsPlaceholderHost(h)}],
                       env, f.path, FALSE)

ReadHelmValues(c, f) == ScanEnvironment(c, f.strings, f.path, FALSE)

ReadDotEnv(c, f) == ScanEnvironment(c, f.strings, f.path, FALSE)

(* The first reader that takes the file; a file that does not parse gives  *)
(* nothing, a manifest apart.                                              *)
ReadConfigFile(c, f) ==
    CASE IsComposeFile(f) -> IF f.parses THEN ReadCompose(c, f) ELSE c
      [] IsHelmChart(f) -> IF f.parses THEN ReadHelmChart(c, f) ELSE c
      [] IsK8sManifest(f) -> ReadK8sManifest(c, f)
      [] IsHelmValues(f) -> IF f.parses THEN ReadHelmValues(c, f) ELSE c
      [] IsDotEnvExample(f) -> ReadDotEnv(c, f)

ParseFails(f) ==
    IF IsK8sManifest(f) THEN \E i \in DOMAIN f.documents : ~f.documents[i].parses
    ELSE ~IsDotEnvExample(f) /\ ~f.parses

---------------------------------------------------------------------------
(* Contracts. *)

CountOperations(head) == IF head.externalRef THEN NoCount ELSE head.operations

(* A contract named by its extension needs an entry point; any other needs *)
(* a root marker, a title and a version.                                   *)
SniffSpec(f) ==
    LET spec == [path |-> f.path, kind |-> None, title |-> f.stem, operations |-> NoCount,
                 rule |-> "extension_sniff", confidence |-> ConfidenceExtensionSniff]
        marked == [spec EXCEPT !.title = f.head.title, !.operations = CountOperations(f.head),
                               !.rule = "root_marker", !.confidence = ConfidenceExactName]
        Marked(kind) == IF "" \in {f.head.title, f.head.version} THEN {} ELSE {[marked EXCEPT !.kind = kind]}
    IN CASE f.ext = "proto" -> IF f.head.entry THEN {[spec EXCEPT !.kind = "grpc"]} ELSE {}
         [] f.ext \in {"graphql", "graphqls", "gql"} -> IF f.head.entry THEN {[spec EXCEPT !.kind = "graphql"]} ELSE {}
         [] OTHER -> IF ~f.parses THEN {}
                     ELSE IF f.head.markers \cap {"openapi", "swagger"} # {} THEN Marked("openapi")
                     ELSE IF "asyncapi" \in f.head.markers THEN Marked("asyncapi")
                     ELSE {}

---------------------------------------------------------------------------
(* Packages.  A manifest's names: own, the names it may publish, in the    *)
(* order the parser tries them; requires, what it depends on.  A name is   *)
(* [id |-> its normal form, raw |-> as written, template |-> it holds a    *)
(* property nobody resolved].                                              *)

Package(ecosystem, n) == [ecosystem |-> ecosystem, name |-> n.id]

FirstNamed(names) == LET s == SelectSeq(names, LAMBDA n : n.id # "") IN IF s = <<>> THEN {} ELSE {s[1]}
Plain(names) == {n \in names : ~n.template}

ParseGoMod(f) == [published |-> FirstNamed(f.own), requires |-> f.requires]
ParseNPMPackage(f) == [published |-> FirstNamed(f.own), requires |-> f.requires]
ParseMavenPOM(f) == [published |-> Plain(FirstNamed(f.own)), requires |-> Plain(f.requires)]
ParsePyProject(f) == [published |-> FirstNamed(f.own), requires |-> {n \in f.requires : n.id # "python"}]
ParseRequirements(f) == [published |-> {}, requires |-> f.requires]
ParseCargoToml(f) == [published |-> FirstNamed(f.own), requires |-> f.requires]
ParseCsproj(f) ==
    [published |-> Plain(FirstNamed(Append(f.own, [id |-> f.stem, template |-> FALSE]))), requires |-> Plain(f.requires)]

ReadManifest(f) ==
    LET eco == ParserFor(f)
        m == CASE eco = "go" -> ParseGoMod(f)
               [] eco = "npm" -> ParseNPMPackage(f)
               [] eco = "maven" -> ParseMavenPOM(f)
               [] eco = "python" -> ParsePyProject(f)
               [] eco = "pip" -> ParseRequirements(f)
               [] eco = "cargo" -> ParseCargoToml(f)
               [] eco = "nuget" -> ParseCsproj(f)
        name == IF eco = "pip" THEN "python" ELSE eco
    IN [published |-> {Package(name, n) : n \in m.published}, requires |-> {Package(name, n) : n \in m.requires}]

---------------------------------------------------------------------------
(* Extractors.  served says how the provider answers for each path: "ok",  *)
(* "absent" (a commit removed it meanwhile) or "failed".                   *)

Extracted(data, reasons) == [data |-> data, complete |-> reasons = {}]

Chosen(files, cap) == SubSeq(files, 1, IF Len(files) > cap THEN cap ELSE Len(files))

Reasons(tree, truncated, Match(_), cap, served, Unparsable(_)) ==
    LET files == Shortlist(tree, Match)
        kept == ToSet(Chosen(files, cap))
    IN (IF truncated THEN {"tree_truncated"} ELSE {})
       \union (IF Len(files) > cap THEN {"too_many_candidates"} ELSE {})
       \union (IF \E f \in kept : served[f.path] = "failed" THEN {"read_failed"} ELSE {})
       \union (IF \E f \in kept : served[f.path] = "ok" /\ Unparsable(f) THEN {"parse_failed"} ELSE {})

Fetched(tree, Match(_), cap, served) ==
    SelectSeq(Chosen(Shortlist(tree, Match), cap), LAMBDA f : served[f.path] = "ok")

CollectConfig(tree, cap, served) ==
    FoldLeft(ReadConfigFile, NewResourceCollector, Fetched(tree, IsConfigCandidate, cap, served))

ExtractResources(tree, truncated, cap, served) ==
    LET c == CollectConfig(tree, cap, served)
    IN Extracted([resources |-> c.resources, deps |-> c.deps, hints |-> c.hints],
                 Reasons(tree, truncated, IsConfigCandidate, cap, served, ParseFails))

ExtractHosts(tree, truncated, cap, served) ==
    LET c == CollectConfig(tree, cap, served)
    IN Extracted([services |-> c.services, hosts |-> c.hosts, consumed |-> c.consumed],
                 Reasons(tree, truncated, IsConfigCandidate, cap, served, ParseFails))

ExtractAPIs(tree, truncated, cap, served) ==
    Extracted(UNION {SniffSpec(f) : f \in ToSet(Fetched(tree, IsSpecCandidate, cap, served))},
              Reasons(tree, truncated, IsSpecCandidate, cap, served, LAMBDA f : FALSE))

ExtractPackages(tree, truncated, cap, served) ==
    LET read == {f \in ToSet(Fetched(tree, IsManifest, cap, served)) : f.parses}
    IN Extracted([published |-> UNION {ReadManifest(f).published : f \in read},
                  requires |-> UNION {ReadManifest(f).requires : f \in read}],
                 Reasons(tree, truncated, IsManifest, cap, served, LAMBDA f : ~f.parses))

---------------------------------------------------------------------------
(* Signals of the listing.  A path carries the rule it matches, if any. *)

ConfidentLanguages == {"go", "javascript", "typescript", "java", "kotlin", "ruby", "php", "python"}

DetectCI(tree, truncated) ==
    IF tree = <<>> /\ ~truncated THEN "unknown"
    ELSE IF \E f \in ToSet(tree) : f.ci THEN "yes"
    ELSE IF truncated THEN "unknown" ELSE "no"

(* f.testOf is the languages one of whose rules the path matches. *)
DetectTests(tree, languages, truncated) ==
    IF tree = <<>> /\ ~truncated THEN "unknown"
    ELSE IF \E f \in ToSet(tree) : ~IsVendored(f) /\ f.testOf \cap languages # {} THEN "yes"
    ELSE IF truncated \/ languages \cap ConfidentLanguages = {} THEN "unknown" ELSE "no"
=============================================================================
