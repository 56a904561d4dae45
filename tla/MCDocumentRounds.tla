--------------------------- MODULE MCDocumentRounds ---------------------------
(* Small instances of DocumentRounds for TLC. *)
EXTENDS DocumentRounds

TwoTypes == <<"README", "API">>
Around0 == {<<>>, <<"word">>, <<"fence">>, <<"fence", "json">>, <<"word", "fence">>,
            <<"word", "fence", "json">>, <<"fence", "word">>}
Wrapped == {before \o Object \o after : before \in Around0, after \in Around0}
Broken == {<<>>, <<"word">>, <<"fence", "json", "{", "body", "fence">>,
           <<"{", "word", "}">> \o Object, <<"fence", "fence">>}
SomeTexts == Wrapped \cup Broken

Sound == <<"heading", "text">>
Open == <<"heading", "fence", "text">>
Hasty == <<"blank", "heading", "title", "heading", "text", "blank">>
SomeDrafts == {Sound, Open, Hasty, <<"blank">>}
SomeMarkdowns == {<<"title", "text">>}

Item(type, score) == [type |-> type, score |-> score]
SomeItems ==
  {<<>>, <<Item("README", 100)>>, <<Item("README", 90), Item("API", 120)>>,
   <<Item("README", 100), Item("API", 100)>>, <<Item("README", 100), Item("OTHER", 100)>>,
   <<Item("README", 100), Item("API", 100), Item("API", 10)>>,
   <<Item("README", 100), Item("API", Unscored)>>}

File(path, source, read) ==
  [path |-> path, source |-> source, read |-> read, entry |-> FALSE, configuration |-> FALSE,
   routes |-> <<>>, express |-> <<>>, services |-> <<>>, production |-> <<>>, development |-> <<>>,
   peer |-> <<>>, name |-> "", package |-> FALSE, directories |-> <<>>]
Package0(read) ==
  [File("package.json", FALSE, read) EXCEPT !.configuration = TRUE, !.package = TRUE,
     !.name = "app", !.peer = <<"nestjs">>, !.production = <<"nestjs", "pg", "react">>, !.development = <<"react", "prisma">>]
Main ==
  [File("src/main.ts", TRUE, TRUE) EXCEPT !.entry = TRUE, !.directories = <<"src">>,
     !.express = <<"GET /", "POST /", "GET /">>]
Service(n, read) ==
  [File(n, TRUE, read) EXCEPT !.directories = <<"src", "src/modules">>,
     !.services = <<"RunsService", "RunsService">>, !.routes = <<"GET /runs", "GET /runs">>]
Web ==
  [File("apps/web/package.json", FALSE, TRUE) EXCEPT !.configuration = TRUE, !.package = TRUE,
     !.directories = <<"apps", "apps/web">>]
SomeRepositories ==
  {<<Main, Web, File("turbo.json", FALSE, TRUE), File("tsconfig.json", FALSE, TRUE),
     File("pnpm-lock.yaml", FALSE, TRUE), Package0(TRUE)>>,
   <<Main, Service("src/modules/runs.ts", TRUE), Package0(TRUE)>>,
   <<Package0(FALSE), Service("src/modules/runs.ts", FALSE), Service("src/modules/users.ts", TRUE)>>,
   <<Service("src/modules/runs.ts", TRUE)>>}
=============================================================================
