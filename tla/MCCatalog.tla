----------------------------- MODULE MCCatalog -----------------------------
(* Two repositories, orders and payments, and a few commits of each. *)
EXTENDS Catalog

NoHead == [markers |-> {}, title |-> "", version |-> "", operations |-> NoCount, externalRef |-> FALSE, entry |-> FALSE]

Blank ==
    [path |-> "", dir |-> <<>>, stem |-> "", mark |-> ".", ext |-> "", size |-> 1, parses |-> TRUE,
     services |-> {}, dependencies |-> {}, documents |-> <<>>, strings |-> {}, head |-> NoHead,
     own |-> <<>>, requires |-> {}, ci |-> FALSE, testOf |-> {}]

File(path, dir, stem, mark, ext) ==
    [Blank EXCEPT !.path = path, !.dir = dir, !.stem = stem, !.mark = mark, !.ext = ext]

Key(name, hint, connection) == [name |-> name, hint |-> hint, connection |-> connection]
URL(scheme, host, port, path) == [form |-> "url", scheme |-> scheme, endpoints |-> <<[host |-> host, port |-> port]>>, path |-> path]
Bare(host, port) == [form |-> "bare", endpoints |-> <<[host |-> host, port |-> port]>>]
Entry(key, value) == [key |-> key, value |-> value]
Service(name, image, dependsOn, env) == [name |-> name, image |-> image, dependsOn |-> dependsOn, env |-> env]
Doc(kind, names, env) == [parses |-> TRUE, kind |-> kind, names |-> names, env |-> env]
Template == [parses |-> FALSE, kind |-> None, names |-> {}, env |-> <<>>]
Name(id) == [id |-> id, template |-> FALSE]

PaymentsURL == Key("PAYMENTS_URL", None, TRUE)
ShopURL == Key("SHOP_URL", None, TRUE)
DatabaseURL == Key("DATABASE_URL", "postgresql", TRUE)

SharedDB == URL("postgres", <<"db", "prod">>, 5432, <<"orders">>)

Compose == [File("compose", <<>>, "docker-compose", ".", "yml") EXCEPT !.services =
    {Service("web", <<>>, {"db", "payments"}, {Entry(PaymentsURL, URL("http", <<"payments">>, 8080, <<>>))}),
     Service("db", <<"library", "postgres">>, {}, {})}]

TestCompose == [File("test-compose", <<>>, "docker-compose", ".test.", "yml") EXCEPT !.services =
    {Service("web", <<>>, {"payments"}, {Entry(PaymentsURL, Bare(<<"payments">>, 8080))})}]

OrdersK8s == [File("orders-k8s", <<"k8s">>, "deployment", ".", "yaml") EXCEPT
    !.ci = FALSE,
    !.documents = <<Doc("service", {<<"orders">>}, <<>>),
                    Doc("deployment", {}, <<Entry(DatabaseURL, SharedDB),
                                            Entry(ShopURL, URL("https", <<"shop", "io">>, NoPort, <<>>))>>)>>]

PaymentsK8s == [File("payments-k8s", <<"deploy">>, "values", ".", "yaml") EXCEPT
    !.documents = <<Doc("service", {<<"payments">>}, <<Entry(DatabaseURL, SharedDB)>>),
                    Doc("ingress", {<<"shop", "io">>}, <<>>)>>]

Contest == [File("contest", <<"k8s">>, "extra", ".", "yaml") EXCEPT
    !.documents = <<Doc("service", {<<"orders">>, <<"payments">>}, <<>>)>>]

Templates == [File("templates", <<"deploy">>, "app", ".", "yaml") EXCEPT !.documents = <<Template, Doc("service", {<<"payments">>}, <<>>)>>]

DotEnv == [File("dotenv", <<>>, "env", ".", "example") EXCEPT
    !.strings = {Entry(DatabaseURL, URL("postgres", <<"localhost">>, 5432, <<"orders">>)),
                 Entry(Key("ORDERS_QUEUE_URL", None, TRUE), Bare(<<"orders", "svc">>, NoPort))}]

OpenAPI == [File("openapi", <<>>, "openapi", ".", "yaml") EXCEPT
    !.head = [NoHead EXCEPT !.markers = {"openapi"}, !.title = "Orders", !.version = "1", !.operations = 3]]
Proto == [File("proto", <<"api">>, "orders", ".", "proto") EXCEPT !.head.entry = TRUE]
GoMod == [File("go.mod", <<>>, "go", ".", "mod") EXCEPT !.own = <<Name("corp/orders")>>, !.requires = {Name("corp/lib")}]
GoTest == [File("go-test", <<"pkg">>, "orders_test", ".", "go") EXCEPT !.testOf = {"go"}]
Workflow == [File("workflow", <<".github", "workflows">>, "ci", ".", "yml") EXCEPT !.ci = TRUE]

a == "orders"
b == "payments"

MCRepos == {a, b}
MCTrees ==
    [r \in MCRepos |->
        IF r = a THEN <<<<TestCompose, Compose, OpenAPI, GoMod, GoTest>>, <<TestCompose, OrdersK8s, Proto, Workflow>>>>
        ELSE <<<<PaymentsK8s, DotEnv>>, <<Contest, Templates>>>>]
MCLanguages == [r \in MCRepos |-> IF r = a THEN {"go", "javascript"} ELSE {"rust"}]
MCDominant == [r \in MCRepos |-> IF r = a THEN "javascript" ELSE "rust"]
MCNoTreeSHA == {b}
MCCaps == [packages |-> 2, apis |-> 2, resources |-> 2, hosts |-> 2]

ASSUME CatalogConstants == CatalogAssumption
=============================================================================
