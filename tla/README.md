# Verification of airflow

`airflow` is a small airline booking system: a C++ server (`servidor.cpp`) over
a SQLite file (`db.c`), C++ clients (`controlador.cpp` over `clientSocket.cpp`)
that talk to it through TCP, and a C console (`main.c`) that opens the same
file. This directory holds TLA+ models of these parts, the TLC runs that check
them on small instances, and proofs checked by TLAPS.

## Inventory

| Part | State it keeps | Operations | What makes it correct |
|---|---|---|---|
| Database access, `db.c` | the SQLite file: five tables with AUTOINCREMENT ids | create, insert, list and look up rows; four CSV loaders; buy a ticket; clear the tickets | keys unique, references point to rows, ids never come back, a load without losses brings every line in |
| Server, `servidor.cpp` | the client it serves, `idUsuarioActual`, `salirCliente`, the answer being sent | start (clearing the tickets), accept, receive, `procesarPeticion`, send, close | one session at a time, one answer per request, a purchase confirmed is stored |
| Client, `controlador.cpp` | where its menus are, role, `idUsuarioAutenticado`, four cached listings | log in, list, search, load CSV, buy, see tickets, change user, leave | its copy of the session equals the server's, its caches are as new as the last load |
| Client socket, `clientSocket.cpp` | the connection | connect, one send and one recv per request, close | an answer belongs to the request it is taken for |
| Console, `main.c` | login, role, option, what `stdin` still holds, and its own handle on the file | log in, choose, confirm, pause, load CSV, list | both processes may load at once without breaking the file; each question reads what was typed for it and only an option leaves a menu |
| In-memory lists, `vuelo.c`, `pasajero.c`, `aeropuerto.c`, `equipaje.c` | arrays | create, remove, update, reserve and free seats, save, load | seats add up, keys unique, what is saved is what is loaded |
| First client, `cliente.cpp` | role, cached listings, the state of `std::cin` | log in, list, search, load CSV, change user, leave | what it does not understand of the server of today harms neither itself nor the clients of the other kind |
| Configuration, `config.c` | accounts, paths, port | read once at start | the last line of a key counts, unless a value runs over its field into the next |

How they interact: a client sends one text over TCP and waits in `recv` for one
answer. The server's only thread accepts a client, answers it until it leaves,
and only then accepts the next, which meanwhile waits in a backlog of 1 and may
already have sent its login. Server and console share nothing but the file;
every statement commits on its own and no busy handler is installed, so one that
meets the other's lock fails at once, usually with nobody looking at the result.

What is hard here: requests and answers carry no number, and a long answer
(a listing can have 30 KB) may come out of several `recv`s, after which client
and server are out of step; requests sent ahead are joined into one text; two
copies of the session, one in each process; caches that nobody invalidates from
outside; processes that are killed at any point, with requests still queued;
a server that clears the tickets when it starts, even if it then cannot bind
its port; loads of several hundred statements that are not a transaction and
run while the other process writes. `PROJECT.json` lists these hazards at their
lines with the property that covers each.

## Modules

| Module | Models | Notes |
|---|---|---|
| `BaseDatos` | the statements of `db.c` | operators on tables `[filas, seq]`: the rows and the last id given out |
| `CargaCSV` | `db.c` loaders run by server and console | one action per statement; locks, kills, restarts, purchases |
| `MCCargaCSV` | | its CSV lines for TLC |
| `CargaCSV_proofs` | | theorems about `CargaCSV` |
| `Protocolo` | requests, answers, TCP | the constants and the connection variables both sides share |
| `Servidor` | `servidor.cpp` | and the console as the other user of the file |
| `Controlador` | `controlador.cpp`, `clientSocket.cpp` | one copy of each variable per client |
| `Airflow` | the composition | `Next` is a step of the server's side or of one client, and the other side stands still |
| `Reservas` | the booking service the passengers are promised | abstract: no sockets, menus, answers or locks |
| `AirflowReservas` | | the refinement mapping from `Airflow` to `Reservas` |
| `MCAirflow` | | the constants of both for TLC, and the symmetry of the clients |
| `ClienteAntiguo` | `cliente.cpp` | what it has word for word like its successor is taken from `Controlador` |
| `AirflowMixto`, `MCAirflowMixto` | the server with clients of both kinds | |
| `Airflow_proofs` | | theorems about `Airflow` (types, nobody waits for nothing, answers belong to requests, one session in two copies, caches) and `AirflowMixto` |
| `Compras_proofs` | | theorems about `Airflow`: it implements `Reservas`; theorems about `Reservas`, and what follows |
| `Config` | `config.c`, `config.h` | one piece of the file after another, into the bytes of the struct |
| `Consola`, `MCConsola` | `main.c` | login, menus, and what `stdin` holds |
| `Consola_proofs` | | theorems about `Consola` and `Config` |
| `ListaTexto` | the texts `db.c` makes for the sockets | `append_text` row by row, for any lengths |
| `MCListaTexto` | | its lengths for TLC |
| `ListaTexto_proofs` | | theorems about `ListaTexto` |
| `ListaCSV` | what the four array lists share | find, create, remove, `strtok`; keys that are cut |
| `ListaCSV_proofs` | | lemmas about them, and induction on the lines of a file |
| `Vuelos` | `vuelo.c` | the list of flights, its seats, its file |
| `Pasajeros` | `pasajero.c` | the list of passengers, their flights, its file |
| `MCVuelos`, `MCPasajeros` | | their keys and texts for TLC |
| `Vuelos_proofs`, `Pasajeros_proofs` | | theorems about `Vuelos`, about `Pasajeros` |

The operators whose comment begins with "A seeded bug" are not part of any
specification. Each is a plausible mistake in the definition that follows it,
kept to show that a property notices it (`mutants` in `PROJECT.json`).

### CargaCSV: two processes on one file

A line of a CSV file is a sequence of fields; `Campos` drops the empty ones, as
`strtok` does, so the rest move to the left. `fase[p]` is the loader process `p`
is in, `linea[p]` the next line, 0 before `fopen`. A flight line takes the
actions `BuscarOrigen`, `BuscarDestino` and `FilaVuelo`, and the other process
may run in between. While the other process is at work any statement may fail
with `SQLITE_BUSY` (`Bloqueada`); the history variable `fallo` remembers it,
`completa` that some load ended without such a loss.

The keys are those of the tables the code creates (`db_inicializar`) and the live
file has. The script `airflow.db.sql` declares others. Two runs show what the
difference means: each checks a constraint of that script and TLC finds a
behaviour of the code that breaks it. (The script also wants one ticket per user
and flight, and tickets of existing users; nothing in the code looks at either.)

### Airflow: clients, server, console

| Variable | In the code |
|---|---|
| `cola`, `atendido` | the backlog of `listen(socketServidor, 1)`; the client of `socketCliente` |
| `abierto[c]` | the client's process and its end of the connection exist |
| `al_servidor[c]`, `al_cliente[c]` | bytes on their way: requests, and pieces of answers |
| `servidor` | where `main` is: `apagado`, `escucha` (in accept), `recv`, `enviar` (an answer ready) |
| `idUsuarioActual`, `salirCliente`, `respuesta` | the variables of `servidor.cpp` |
| `pc[c]` | `login`, `menu`, or in `comprarBillete`: `comprar` (its search is out), `confirmar` (asking s/n) |
| `pendiente[c]` | the request whose `recv` has not returned, or `NADA` |
| `rol[c]`, `idUsuarioAutenticado[c]`, `codigo[c]`, `cache[c]` | the variables of `Controlador` |
| `billete`, `vuelos`, `consola` | tickets, flight codes in the file, whether the console is at work on it |

One `recv` of the server takes any prefix of what the client has sent
(`Prefijos`), so it can get several requests joined. `procesarPeticion` is split
into one operator per branch; a joined text reaches `VerMisBilletes`, whose
branch compares only a prefix, or ends in an error. `SinMemoria` is the `malloc` of a
text that fails, which every branch that makes one answers with an error. One `recv` of a client takes
any prefix of the pieces that have come; `LoginContestado`, `ListaContestada`
and so on are what the code does with that text, whatever it is. A role is
compared with the whole text, except the passenger's, of which only the
beginning is. A request has a few dozen bytes and is taken to travel whole; so
are short answers.

Data that no property tells apart is left out: names, prices, seats and dates,
the text of listings (a listing is the number of loads finished when it was
made, `version`) and the routes of flights. A CSV load is one step here;
`CargaCSV` has its statements. `version`, `verServidor`, `borrado`, `cargas`,
`pedidas`, `entero` and `confirmados` are history: nothing in the model's
behaviour depends on them, apart from the bounds `MaxCargas` and `MaxCompras`.

### Reservas: what airflow promises, and the mapping

`Reservas` is what a passenger may rely on: a client asks for tickets, each
request becomes one ticket at most, and the news of a ticket reaches nobody but
the client that asked, once. Requests and news may be lost, and a start of a
server clears the tickets. `AirflowReservas` maps `Airflow` to it:

| `Reservas` | in `Airflow` |
|---|---|
| `pedidas` | purchases asked for |
| `encargos[c]` | the flights of the `COMPRAR_BILLETE` requests in `al_servidor[c]` |
| `vendidos`, `ultimo` | number and flight of the rows of `Billete`; the last id it gave |
| `borrado` | the last id when a server last started |
| `porAvisar[c]` | the tickets of the answers in `al_cliente[c]`, and of `respuesta` while `c` is served |
| `avisos[c]` | the tickets `c` was told of (`confirmados`) |

Confirming a purchase is `Encargar` (on a dead connection the request is lost at
once), the step of `procesarPeticion` that inserts is `Vender`, a `recv` of a
client is `Avisar`, starting a server is `Borrar`; what loses messages (ends of
processes, closed connections, joined requests, refusals) is `Perder`, and the
rest stutters. `Vender` takes a request of the client it tells the news to: a
server that answered one client with the ticket of another, or that executed a
request twice, would have no step of `Reservas` to be.

### ClienteAntiguo and AirflowMixto: the first client

`cliente.cpp` is still in the tree and talks to the same port. Three things set
it apart from its successor:

- Its `hacerLogin` compares the whole answer with each `ROL|...`; the server now
  adds an id to `ROL|PASAJERO`, so a passenger's login is taken for a failed one
  and `ejecutarMenuPasajero` is out of reach. The server, which does not know,
  has opened a session. The menu of the passenger is therefore not modelled.
- It asks for nothing that needs the session (no purchases, no tickets).
- It reads options with `std::cin >> opcion`. A line that is no number leaves the
  stream failed: `opcion` is 0, `pausar` returns at once and the menu goes round
  for ever without its user (`trabado`). Nothing but a kill ends it, and the
  server's `recv` has no time limit. (It draws its menu, but sends nothing.)

Those of `Antiguos` run it, other clients run `controlador.cpp`.

### Consola and Config: the console

`entrada` is the line `stdin` holds, with the question it was typed for (`para`),
and `Teclear` may type any line of `Lineas` at a login and of `Respuestas` at the
rest. What the reads leave is the point: the login takes
99 bytes of a line (`TamCuenta`), an option 63 (`TamOpcion`), `pausarPantalla` one
character and `confirmarAccion` three (`char r[4]`), so an answer that is longer is
read on by the next question. `deMas` remembers that
somebody typed more than was asked for. `Cerrar` ends the input: every read then
fails at once, a login is wrong, an option invalid and a confirmation a no, and
`main` goes round for ever. That the login is refused when a read fails, that `op`
keeps its value when a line is not valid, and that a no to leaving ends the
administrator's menu all the same (`opcion` is 7) are as in the code. What an
option does with the file is in `CargaCSV` and `ListaTexto`.

A file of `Config` is a sequence of lines and a line the sequence of pieces that
`fgets(linea, 300, f)` makes of it: one, unless it is longer, and then the rest is
taken for a line of its own, even the rest of a comment. What it is loaded into is
the struct of `config.h`, byte by byte: `sscanf` takes up to 199 characters of a
value (`LEIDO`) and `strcpy` does not look at the 50 bytes of an account's field
(`CAMPO`), so a longer value runs on into the accounts that follow, and at most into
`ruta_aeropuertos`, never out of the struct. A field is read as far as its first
NUL (`Cadena`), wherever that is. The paths have 200 bytes, which every value fits
in; of those between `ruta_aeropuertos` and `ruta_log` nothing is modelled, nor is
the port, which no value reaches.

Two things are outside: `main.c` opens `config.txt` and `servidor.cpp`
`src/config.txt`, each from its own directory, so that the two programs may read
different files; and the clients have port 5000 written in their code, whatever
`puerto_servidor` says.

### ListaTexto: what fits in a listing

A row is the length its line would have; `Cortada` is what `snprintf` leaves of
it in `linea[512]`. `mostradas` holds the rows whose line is in `resultado` and
`largo` is its length. `append_text` skips a line that does not fit and the loop
goes on, so a shorter one may still enter. The four listings are `tipo = "listar"`;
the search by origin and destination and the tickets of a user are `"buscar"`,
which answer an error when no row was read. The guard of `append_text` (`Cabe`)
asks for one byte more than the text and its final zero need: the row that would
fill the buffer to its last byte is left out. No document of the repository says
otherwise, so this is how the code is and no finding. In `Airflow` a listing always shows
all its rows: `LecturaPropia` there is a statement about users whose tickets fit
in the 20000 bytes of `db_billetes_usuario_texto`.

### Vuelos and Pasajeros: the array lists

`lista` is the array up to `total`; `archivo` the lines of the CSV file, each a
key and its other fields. `Recorte` gives what `strncpy` keeps of a key: the keys
callers use may be longer than the field, those in the list are not. A flight
keeps two texts of its six, a passenger the name, the email and the telephone;
texts contain no comma. `vendidos` (seats reserved and not released) and
`recortado` are history. Nothing calls these files yet, so any sequence of their
operations is a behaviour, and `Reiniciar` ends the program at any point.

## Properties and runs

| Run | Instance | Checks |
|---|---|---|
| `carga_integridad` | two loads in all, two tickets, lines with duplicate keys, an empty field, a short line | `TypeOK`, `ClavesUnicas`, `RutaCorrecta`, `BilleteConVuelo`, `CargaCompleta`, `IdsNuncaRepetidos`, `CargaTermina` |
| `cod_vuelo_unico`, `equipaje_con_vuelo` | the same files | constraints of `airflow.db.sql` that the code does not keep (violated) |
| `airflow_sesion` | 2 clients, 3 kinds of login, whole answers, 1 load | `TypeOK`, `AcuerdoSesion`, `RespuestaCorresponde`, `CacheAlDia`, `CacheSoloPorCarga`, `SinSalida` |
| `airflow_compras` | 2 passengers, 1 purchase, 1 load of the console | `ConfirmadoGuardado`, `LecturaPropia`, `CadaBilleteUno`, `CompraConSesion`, `ImplementaReservas` |
| `airflow_vivo` | 1 client, answers in up to 2 pieces, 1 purchase, fair threads | `NadieEsperaEnVano`, `ComprasContadas`, `RespuestaLlega`, `SeSuelta` |
| `airflow_mixto` | a client of each kind, all logins, 1 load | `AntiguoSinPasajero`, `AcuerdoNuevos`, `TrabadoRetiene` |
| `consola` | a hundred files; fields of 3 bytes, values of up to 11; 8 lines at a question, 13 at a login, in buffers of 5 and 7; the input may end | `ConfigFiel`, `EnSuPaso`, `SoloOpcionSale`, `CierreSinFin`, `EsperaAlUsuario` |
| `texto_huecos` | up to 4 rows of 4 lengths, a buffer for 2 or 3 | `TypeOK`, `FaltanLasQueNoCaben`, `BusquedaContesta` |
| `vuelos_lista` | 2 flights, 3 ids, capacities 1 and 2, empty texts | `TypeOK`, `AsientosCuadran`, `RecargaFiel` |
| `pasajeros_lista` | 2 passengers with up to 2 flights, 3 keys, empty fields | `TypeOK`, `RepetidosPorRecorte`, `RecargaFiel`, `VuelosQuedan` |
| `pasajeros_duplicados` | as `pasajeros_lista` | `SinVuelosDuplicados`, the check the code announces (violated) |

What the main ones say:

- `CargaCompleta`: if some load of either process lost no statement and no file,
  every valid line of every file is in the tables, whatever the other process
  was doing. `RutaCorrecta`: a stored flight goes between the airports its line
  names, although three statements were needed and the other process ran between.
- `AcuerdoSesion`: between requests, `idUsuarioActual` and the served client's
  `idUsuarioAutenticado` are equal and agree with its menu. The change of user is
  not told to the server and a failed login clears nothing, on either side; that
  is why it works. It says so only of connections on which every `recv` returned
  one whole answer (`entero`): with cut answers client and server are out of step.
- `NadieEsperaEnVano` and `ComprasContadas` need no such condition: with cut
  answers and joined requests a client still never waits without something on
  its way, and a request to buy still becomes at most one ticket. `airflow_vivo` cuts
  its answers.
- `CompraConSesion`: the server does not compare the id of `COMPRAR_BILLETE` with
  the session; the steps of the client make them equal nevertheless.
- `ConfirmadoGuardado`: a ticket confirmed, or in an answer still on its way, is
  stored, unless a server has started since (`borrado`): starting one clears them.
- `LecturaPropia`: the list of tickets a client is about to read holds all it was
  told it had bought and no start of a server has cleared.
- `ImplementaReservas`: every step of the system is one of the booking service or
  none. `CadaBilleteUno` is what that service promises of news and tickets: no
  ticket is told to two clients, none twice to one.
- `CacheAlDia`: a served client shows no listing older than the last load made
  through the server. Loads of the console are not covered: the code does not
  tell clients of them. `CacheSoloPorCarga` is the other side: whatever a cache
  holds as valid, an error or the empty listing of a locked file included, stays
  through changes of user and logins until a load of this client.
- `SinSalida`: a client at the login whose server is gone stays there until its
  process ends, even if a server starts again: it connects only once.
- `AntiguoSinPasajero`: the session the server opens for a passenger that the first
  client takes for a failed login is closed again by the login that does open a
  menu. It speaks of clients whose answers came whole. `AcuerdoNuevos`: no such session is left to the clients that come next.
  `TrabadoRetiene`: a client that goes round its menu with `std::cin` failed keeps
  the server from everybody else until one of the two is killed.
- `EnSuPaso`: until somebody types more than was asked for, every question of the
  console reads what was typed for it. `SoloOpcionSale`: no invalid line, pause or
  refused login takes a role away, though `op` keeps the option of before.
  `CierreSinFin`: once its input has ended and nothing of it is left, the console
  does not end by itself. `EsperaAlUsuario`: while its input is open it does not
  spin, whatever was typed. `ConfigFiel`: a field
  reads as the value of the last piece that names its key, in files of any order and
  with any lengths, but for one case: a later value of another key was written over
  some of its bytes, and one of the two did not fit in its field. With values that
  fit, the last line of a key counts and nothing else does.
- `FaltanLasQueNoCaben`: listings have holes, but no listing is longer than
  `BUFFER - 2` characters, and a row is left out only if the listing, as it ends,
  would be longer than that with it. It is not said that every row that fits in the
  buffer is in the text: one for which `largo + n + 1 = BUFFER` would fit exactly and
  is left out. `TypeOK` of `ListaTexto` says that the text and
  its final zero never outgrow the buffer. `BusquedaContesta`: `encontrados` counts
  rows read, not rows in the text; the two agree on "none" because the header
  leaves room for any line.
- `AsientosCuadran`: seats sold and free add up to the capacity until a capacity
  below the seats sold is set. `vuelo_actualizar` then forgets sold seats, and a
  later growth gives them out again: the property says that this is the only way
  to oversell, and that no seat is ever counted as sold that was not.
- `RepetidosPorRecorte`: keys are compared whole and stored cut to
  19 characters, so the same long key can be stored twice; no other key can.
- `RecargaFiel`: what saving and loading preserves, and what it does not: seats
  sold and flights of passengers are not saved, and `strtok` moves the fields
  after an empty one.

### Bounds

- `MaxCargas`, `MaxBilletes`, `MaxCompras`: loads and purchases ever begun. In
  `CargaCSV` they are 2 and 2, so that two loads overlap or follow one another and two
  tickets lie on either side of a restart. In the runs of `Airflow` there is one load
  at most (none in `airflow_vivo`) and one purchase (none in `airflow_sesion` and
  `airflow_mixto`): two purchases take `airflow_compras` past a million states. With
  one purchase TLC sees it meet deaths, locks, lost answers and clears, but no
  second one; what relates two purchases (`CadaBilleteUno`, `ComprasContadas`,
  `ImplementaReservas`) rests on the theorems, which hold for any number of loads
  and purchases. Restarts, deaths, logins, searches and second servers are not
  bounded.
- `Trozos`: pieces of a long answer. Two already put client and server out of step.
- `MaxCola`: messages of a client on their way when it makes a new request. 1
  lets a client be one piece behind and two requests be joined. It guards only
  the client's requests, so it never stops a `recv` or the server.
- `Credenciales`: which logins users try, to keep some runs small. Purchases only
  need passengers (`airflow_compras`), sessions every kind but one of the two roles
  the server treats alike; `airflow_mixto` has all four.
- `Antiguos`: which clients run `cliente.cpp`. One of each kind meets every pair.
- `Lineas`, `Respuestas`, `Archivos`: the lines of the console are one of each kind
  a read tells apart (empty, an option, not an option, a yes, longer than a pause
  takes, than a confirmation, than an option, than a login); the files have a line of
  each kind before or after the accounts.
- `CAMPO`, `LEIDO`, `TamOpcion`, `TamCuenta`: 3, 11, 5 and 7 where the code has 50,
  199, 64 and 100. A value may run over up to three accounts after its own, as in the
  code, and the theorems hold for any sizes.
- `MaxVendidos`: seats of a flight sold and not released. Without it the seats
  forgotten by `vuelo_actualizar` could be sold for ever; 3 is more than the
  largest capacity in the run, so overselling is reached.
- `MaxLineas`: the longest list that is saved. `RecargaFiel` saves and loads the
  whole list in its own formula, so it needs no longer file; the bound only keeps
  the pairs of a list and an unrelated file few.
- `MaxFilas`: rows of a query in `ListaTexto`; 4 rows are enough for a hole and a
  row after it, and the theorems hold for any number.
- Arrays have room for two entries: enough to be full, to remove the first, and to
  meet a duplicate.
- In `CargaCSV`, the files have two lines per table at most.

A file without tickets and with any of the flights is where every run of
`Airflow` starts: what an earlier use of the programs may have left (the server
clears the tickets before it serves anyone).

### Fairness

`CargaTermina` assumes that each process goes on with its own load: it is a loop
with no wait in it. `RespuestaLlega` and `SeSuelta` assume weak fairness of the
server's thread (`PasoServidor`) and of each client's `recv` (`PasoCliente`):
both are threads with something to do and nobody to wait for but each other.
Users, the console, starts and kills have no fairness. `EsperaAlUsuario` assumes
weak fairness of the reads of the console (`Paso`): a read with a line to take
returns. Its user may stop typing for ever.

## Proofs

`CargaCSV_proofs`, for every content of the files and every bound: `TipoCorrecto`,
`ClavesSiempreUnicas`, `RutaSiempreCorrecta`, `BilletesConVuelo`,
`CargaSiempreCompleta` and `IdsSinRepetir`. Each is `Spec => []Inv`, or the action
property, from an inductive invariant in named parts. `RutaCorrecta` is not
inductive: `RutaHallada` adds what the loader's locals mean between its
statements (`id_orig` is already the airport of the line's origin), and
`PasoEnLinea` that such a line is there to be read. `CargaCompleta` needs
`Avance`: every line before `linea[p]`, and every file before `fase[p]`, is in
the tables if the load has lost nothing. All constants are arbitrary within
their assumptions: files are sequences of sequences of strings. Of `CargaTermina`
the half that needs no fairness is proved, `CargaSiempreAcotada`: what a load has
before it (`Falta`) is a natural number that each of its steps lowers and that
nothing else changes, unless its process dies.

`Airflow_proofs`, for any clients, listings, flights and bounds: `TipoCorrectoRed` (`TypeOK`), `NadieEsperaSiempre` (`NadieEsperaEnVano`)
and `RespuestaSiempreCorresponde` (`RespuestaCorresponde`). `PasosDelCliente`
reduces the many steps of a client to six kinds, which the later proofs go through.

- `NadieEsperaEnVano` is not inductive: closing one connection would leave its
  client waiting if the client were in the backlog as well, and an answer to a
  client that is gone is lost. `Conexiones` rules both out.
- `RespuestaCorresponde` says nothing of requests that have no answer yet.
  `UnSitio` does: while no answer came in pieces, the one request of a client is
  in its socket, in the hands of the server, or answered by pieces that are all
  there, and never in two of these places. `Conversacion` adds what makes this
  true of a new connection: nothing outlives the old one, even if the client was
  killed with requests queued or the server fell.

On top of these, in the same module: `SesionSiempreAcorde` (`AcuerdoSesion`),
`CacheSiempreAlDia`, `CompraSiempreConSesion`, `CacheCambiaSoloPorCarga` and
`SinOtraSalida`. `AcuerdoSesion` only speaks of clients that wait for their user;
`SesionInv` says what holds in between:

- `EnComun`: the two ids are equal while nothing is on its way back to the client,
  and otherwise the server's is the one the client will have when it has read the
  answer (`Casa`, `Tras`). This needs `Sanas` (only a login is answered with a role,
  and never in pieces) and `EnElMenu` (which requests each place of the menu sends).
- `EnEspera`: a client in the backlog can have sent its login and nothing else, and
  `EnReposo`: with nobody served there is no session. Together they make `EnComun`
  true of the client that is accepted next.
- `DeSuUsuario`: a purchase in the socket is for the user of the session, also when
  its client has died since. That is `CompraConSesion`.

`AtencionSiempreAcotada` is what `RespuestaLlega` and `SeSuelta` say without their
fairness: while a served client waits or is gone, every step of the server's
thread lowers a natural number (`Restan`, a `recv` and a `send` for each request in
the socket) or closes the connection, nobody else's step raises it before the
wait is over, and at zero there is an answer to read or a connection to close. That there is an answer is
`NadieEsperaEnVano`.

The clients of both kinds come last in the module: `AntiguoSiempreSinPasajero`
(`AntiguoSinPasajero`), `NuevosSiempreDeAcuerdo` (`AcuerdoNuevos`) and
`TrabadoSiempreRetiene` (`TrabadoRetiene`), for any set of clients running
`cliente.cpp` and any number of pieces. `PasosDelAntiguo` shows that every step
of the first client is one of its successor, apart from the answer to a login
and `std::cin`, so that the lemmas above serve again. `MixtoInv` adds what sets
it apart: `Antiguo` (at a menu the server has no session, nor is an answer on its
way that would open a menu with one), `SinPreguntas` (with `std::cin` failed it
asks for nothing) and `Despedida` (a client that has not asked to leave is not
taken by the server for one that has), without which a client that goes round
its menu would not keep the server. The attempt to prove `AntiguoSinPasajero`
showed that it is false once answers come in pieces: with a piece of a listing
left over, the client is one answer behind, and opens its menu with the role of
one login when the server has opened the session of the next. It therefore speaks
of clients that read their answers whole (`entero`), as `AcuerdoSesion` does.

`Compras_proofs`: `AirflowImplementaReservas` (`ImplementaReservas`) and
`ComprasSiempreContadas`, with an invariant of two parts. `SesionInv` is needed
because it leaves purchases in the socket of the served client only: otherwise
those of several clients would have to be added up against `pedidas`. `Ventas` adds
that no two answers on their way bring the same ticket (`Suelta`), that an answer
that brings one is about to be sent and is one piece, and that a purchase is asked
for with a flight chosen (`Elegido`). Each step of a client or of the server is
then shown to be a step of `Reservas` or a stutter (`VentasCliente`,
`VentasServidor`). `ReservasPaso` is about the abstract service, under the mapping:
its invariant says that all that was told lies in `1..ultimo`, so that the next
ticket is nobody's. With it come `CadaBilleteSiempreUno` (`CadaBilleteUno`),
`AvisadoSiempreGuardado` (a ticket a client was told of is stored until a start
of a server clears it) and `ConfirmadoSiempreGuardado` (`ConfirmadoGuardado`). On that rests `LecturaSiemprePropia` (`LecturaPropia`): when
the list is made it holds every row of the passenger, and it cannot grow old on its
way, since its client would have to be told of a ticket by another answer, and
`UnSitio` says that there is none.

`Consola_proofs`, for any lines and files and any sizes of fields and buffers: `SiempreEnSuPaso` (`EnSuPaso`),
`SoloOpcionSaleSiempre` (`SoloOpcionSale`), `CierreSiempreSinFin` (`CierreSinFin`)
and `ConfigSiempreFiel` (`ConfigFiel`). The invariant says that a line is no
longer than its question takes, and that in a menu or a pause `op` is never the
option that ends the loop. `TypeOK` of `Consola` is part of it. `ConfigFiel` goes
by induction over the pieces of the file: after each, a byte of the struct has what
the last piece so far whose value reaches it wrote there (`QuedaUnaMas`,
`BytesCargados`). If no later value reaches those of a key's last one, they are read
as that value (`Leida`), and two values that fit in their fields share no byte
(`SinPisarse`). The half of
`EsperaAlUsuario` that needs no fairness is `LineaSiempreSeGasta`: a line that
was typed gets shorter with every read until nothing of it is left.

`ListaTexto_proofs`, for rows of any number and length: `TextoEnSuBuffer`
(`TypeOK`), `HuecosPorFaltaDeSitio` (`FaltanLasQueNoCaben`) and `BusquedaConFilas`
(`BusquedaContesta`). The invariant adds `PrimeraDentro`: the first row read is in
the text, because the header and the longest line fit (`ListaTextoAssumption`,
true of every buffer of the code).

`ListaCSV_proofs` has what the lists need. Saving and loading a list of any length
is an induction on its lines, done here for sets of numbers: the least line for
which a statement failed would follow one for which it held (`Minimo`,
`Induccion`), so no library theorem with an operator as parameter is used.
`Aplanado` gives `FlattenSeq` one list at a time, `LlenosDeLinea` what `strtok`
leaves of a line, `Creado`, `Eliminado` and `Quitado` what the operations do to
keys and order.

`Vuelos_proofs`, for any keys, limits and capacities: `VuelosSiempreConTipo`
(`TypeOK`), `AsientosSiempreCuadran` (`AsientosCuadran`) and `RecargaSiempreFiel`
(`RecargaFiel`). The invariant of `AsientosCuadran` (`Cuadra`) adds that no flight
has more seats free than in all, which does not follow for a capacity below zero.

`Pasajeros_proofs`: `PasajerosSiempreConTipo` (`TypeOK`), `RepetidosSiemprePorRecorte`
(`RepetidosPorRecorte`), `VuelosSiempreQuedan` (`VuelosQuedan`) and
`RecargaSiempreFiel` (`RecargaFiel`). A load keeps the keys distinct because
a key in the file is a cut one, and a cut one is compared as it is stored.

Only model-checked: `CargaTermina`, `RespuestaLlega`, `SeSuelta` and
`EsperaAlUsuario`, which need fairness: that the threads take the steps the
theorems count, and that these can be taken (ENABLED is out of the prover's reach).
The violated runs refute what scripts and comments say and have nothing to prove.

## Not modelled

- `aeropuerto.c` and `equipaje.c` have no module of their own: they are `ListaCSV`
  with other fields, and neither program calls them. The update and the listing
  functions of the two add no rule that `vuelo.c` and `pasajero.c` do not have.
- `db_usuario_buscar_email`, which nobody calls, and the listings the console prints,
  which change nothing.
- `usuario.c` prints what it would do and keeps no state; the model classes of the
  client are records that nothing uses.
- In the clients, the end of their own standard input, and the passenger's menu of
  `cliente.cpp`, which no answer of the server opens.
- SQLite is vendored: its autocommit, AUTOINCREMENT, UNIQUE and SQLITE_BUSY are taken
  as `db.c` relies on them. Nearly all the lines under `src/` are this library
  (`sqlite3.c`, `sqlite3.h`, `sqlite3ext.h`); the program itself has some 4500.
- `CAPACIDAD` is compared with nothing (no overbooking rule exists to be checked).
- The wording of texts, layout and logging.
- The server compares a login with the fields of its own copy of `Config`; in `Servidor`
  a login is one of the accounts or none, and what those are is left to `Config`.

What a next step could be: seats of `vuelos` in a purchase, if the server ever looks
at them; numbers in requests and answers, which would let the condition `entero` go
from the properties of `Airflow`.
