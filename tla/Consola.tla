------------------------------ MODULE Consola ------------------------------
(***************************************************************************)
(* server/src/main.c: the console of the server, its login and its three   *)
(* menus, and what its reads take of what its user types.  The loads and   *)
(* the listings an option starts are in CargaCSV and ListaTexto: here they *)
(* end and the menu goes on.                                               *)
(***************************************************************************)
EXTENDS Config

CONSTANTS
  Respuestas,    \* the lines that a user types at a menu or a question
  TamCuenta,     \* char usuario[100] and password[100] of loginSistema
  TamOpcion      \* char buffer[64] of leerEntero

ASSUME RespuestasAssumption == Respuestas \subseteq Lineas

\* fgets has room for a character and the end of the string.
ASSUME TamAssumption == TamCuenta \in Nat \ {0, 1} /\ TamOpcion \in Nat \ {0, 1}

VARIABLES
  config,     \* configSistema
  pc,         \* what main is reading, or "fin"
  usuario,    \* local usuario of loginSistema
  rol,        \* rol of main, ROL_INVALIDO while nobody is in a menu
  op,         \* local op of the menu
  entrada,    \* the line stdin holds and the read it was typed for, or NADA
  cerrada,    \* stdin has come to its end
  deMas       \* history: more was once typed than was asked for

vars == <<config, pc, usuario, rol, op, entrada, cerrada, deMas>>

ROL_INVALIDO == "INVALIDO"

\* Where main reads.
Lecturas == {"usuario", "password", "menu", "pausa", "confirmar"}

NADA == [linea |-> <<>>, para |-> "nada"]

Cifras == [d \in {"1", "2", "6", "7"} |->
             CASE d = "1" -> 1 [] d = "2" -> 2 [] d = "6" -> 6 [] OTHER -> 7]

\* sscanf("%d"): a line is a number if it begins with one.
EsNumero(linea) == linea # <<>> /\ linea[1] \in DOMAIN Cifras
Numero(linea) == Cifras[linea[1]]

CAMBIAR_USUARIO == 6
OPCION_SALIR == 7

\* The option that ends the loop of a menu.
Ultima(r) == IF r = "ADMIN" THEN OPCION_SALIR ELSE 2

\* A seeded bug: a letter and the end of the string, and no room for the \n.
TamRespuesta_justa == 2

\* char r[4] of confirmarAccion.
TamRespuesta == 4

Init ==
  /\ \E archivo \in Archivos : config = Cargado[archivo]
  /\ pc = "usuario"
  /\ usuario = <<>>
  /\ rol = ROL_INVALIDO
  /\ op = 0
  /\ entrada = NADA
  /\ cerrada = FALSE
  /\ deMas = FALSE

----------------------------------------------------------------------------
(* stdin *)

\* What each question asks for: a line that its buffer holds with its \n and
\* the end of the string; ENTER; s or n, or si or no.
Pide(donde, linea) ==
  /\ donde \in {"usuario", "password"} => Len(linea) <= TamCuenta - 2
  /\ donde = "menu" => Len(linea) <= TamOpcion - 2
  /\ donde = "pausa" => linea = <<>>
  /\ donde = "confirmar" => Len(linea) <= 2

Tecleable == IF pc \in {"usuario", "password"} THEN Lineas ELSE Respuestas

Teclear ==
  /\ pc # "fin" /\ ~cerrada /\ entrada = NADA
  /\ \E linea \in Tecleable :
       /\ entrada' = [linea |-> linea, para |-> pc]
       /\ deMas' = (deMas \/ ~Pide(pc, linea))
  /\ UNCHANGED <<config, pc, usuario, rol, op, cerrada>>

Cerrar ==
  /\ pc # "fin" /\ ~cerrada
  /\ cerrada' = TRUE
  /\ UNCHANGED <<config, pc, usuario, rol, op, entrada, deMas>>

\* fgets and getchar return: there is a line, or there will never be one.
Hay == entrada # NADA
Leible == Hay \/ cerrada

\* What a read of n bytes leaves of a line and its \n.
Consumir(n) ==
  entrada' = IF Hay /\ Len(entrada.linea) >= n
               THEN [entrada EXCEPT !.linea = SubSeq(@, n + 1, Len(@))]
               ELSE NADA

\* What leerCadena gives of a line: no more than its buffer holds.
Leido(n) == IF Len(entrada.linea) > n THEN SubSeq(entrada.linea, 1, n) ELSE entrada.linea

----------------------------------------------------------------------------
(* main *)

\* A seeded bug: op is kept from one visit of a menu to the next.
Entrar_con_op(r) == rol' = r /\ pc' = "menu" /\ UNCHANGED op

Entrar(r) == rol' = r /\ pc' = "menu" /\ op' = 0

\* loginSistema returns ROL_INVALIDO.
Rechazar == rol' = ROL_INVALIDO /\ pc' = "pausa" /\ UNCHANGED op

VolverAlLogin == rol' = ROL_INVALIDO /\ pc' = "usuario"

LeerUsuario ==
  /\ pc = "usuario"
  /\ Leible
  /\ Consumir(TamCuenta - 1)
  /\ usuario' = Leido(TamCuenta - 1)
  /\ \/ Hay /\ pc' = "password" /\ UNCHANGED <<rol, op>>
     \/ ~Hay /\ Rechazar
  /\ UNCHANGED <<config, cerrada, deMas>>

\* The accounts are tried in this order.
Cuenta(u, p) ==
  CASE u = Cadena(config, "admin_user") /\ p = Cadena(config, "admin_pass") -> "ADMIN"
    [] u = Cadena(config, "empleado_user") /\ p = Cadena(config, "empleado_pass") -> "EMPLEADO"
    [] u = Cadena(config, "pasajero_user") /\ p = Cadena(config, "pasajero_pass") -> "PASAJERO"
    [] OTHER -> ROL_INVALIDO

LeerPassword ==
  /\ pc = "password"
  /\ Leible
  /\ Consumir(TamCuenta - 1)
  /\ LET r == IF Hay THEN Cuenta(usuario, Leido(TamCuenta - 1)) ELSE ROL_INVALIDO
     IN  \/ r # ROL_INVALIDO /\ Entrar(r)
         \/ r = ROL_INVALIDO /\ Rechazar
  /\ usuario' = <<>>
  /\ UNCHANGED <<config, cerrada, deMas>>

\* A seeded bug: scanf("%d"), which leaves what is not a number where it is,
\* and no pause.
OpcionInvalida_sin_leer == UNCHANGED <<pc, op, entrada>>

\* leerOpcion fails and leaves op as it was.
OpcionInvalida == Consumir(TamOpcion - 1) /\ pc' = "pausa" /\ UNCHANGED op

\* One turn of a menu, as far as its pause.
LeerOpcion ==
  /\ pc = "menu"
  /\ Leible
  /\ \/ ~(Hay /\ EsNumero(entrada.linea)) /\ OpcionInvalida /\ UNCHANGED rol
     \/ /\ Hay /\ EsNumero(entrada.linea)
        /\ Consumir(TamOpcion - 1)
        /\ op' = Numero(entrada.linea)
        /\ \/ rol = "ADMIN" /\ op' = CAMBIAR_USUARIO /\ VolverAlLogin
           \/ rol = "ADMIN" /\ op' = OPCION_SALIR /\ pc' = "confirmar" /\ UNCHANGED rol
           \/ rol # "ADMIN" /\ op' = Ultima(rol) /\ VolverAlLogin
           \/ /\ op' # Ultima(rol)
              /\ ~(rol = "ADMIN" /\ op' = CAMBIAR_USUARIO)
              /\ pc' = "pausa"
              /\ UNCHANGED rol
  /\ UNCHANGED <<config, usuario, cerrada, deMas>>

\* pausarPantalla takes one character, and the loop looks at op again.
Pausa ==
  /\ pc = "pausa"
  /\ Leible
  /\ Consumir(1)
  /\ rol' = IF op = Ultima(rol) THEN ROL_INVALIDO ELSE rol
  /\ pc' = IF rol' = ROL_INVALIDO THEN "usuario" ELSE "menu"
  /\ UNCHANGED <<config, usuario, op, cerrada, deMas>>

\* A seeded bug: only n is a no.
Confirmado_salvo_n == ~(Hay /\ entrada.linea # <<>> /\ entrada.linea[1] = "n")

Confirmado == Hay /\ entrada.linea # <<>> /\ entrada.linea[1] \in {"s", "S"}

\* With a yes the program ends; without it the menu ends, since opcion is 7.
confirmarAccion ==
  /\ pc = "confirmar"
  /\ Leible
  /\ Consumir(TamRespuesta - 1)
  /\ \/ Confirmado /\ pc' = "fin" /\ UNCHANGED rol
     \/ ~Confirmado /\ VolverAlLogin
  /\ UNCHANGED <<config, usuario, op, cerrada, deMas>>

Paso == LeerUsuario \/ LeerPassword \/ LeerOpcion \/ Pausa \/ confirmarAccion

Next == Teclear \/ Cerrar \/ Paso

Spec == Init /\ [][Next]_vars

\* A console that can read does so; its user may stop typing for ever.
SpecJusta == Spec /\ WF_vars(Paso)

----------------------------------------------------------------------------

\* Every variable has its type; what config holds is ConfigFiel.
TypeOK ==
  /\ pc \in {"usuario", "password", "menu", "pausa", "confirmar", "fin"}
  /\ usuario \in Seq(STRING)
  /\ rol \in {ROL_INVALIDO, "ADMIN", "EMPLEADO", "PASAJERO"}
  /\ op \in {0} \cup Range(Cifras)
  /\ cerrada \in BOOLEAN /\ deMas \in BOOLEAN
  /\ entrada = NADA \/ entrada \in [linea : Seq(STRING), para : Lecturas]

\* config.txt says what cargarConfig loads: the last piece of a key counts, in
\* files of short and long lines.  The only thing that keeps a field from the
\* value of that piece is a later one of another key whose bytes reach those
\* of the value, since one of the two values does not fit in its field.
ConfigFiel ==
  \A archivo \in Archivos : config = Cargado[archivo] =>
    LET piezas == FlattenSeq(archivo)
        EsLaUltima(i, k) == /\ i = 0 \/ piezas[i].clave = k
                            /\ \A j \in i + 1 .. Len(piezas) : piezas[j].clave # k
        Dado(i, k) == IF i = 0 THEN Inicial(k) ELSE piezas[i].valor
        Pisa(j, k, v) == LET c == piezas[j].clave
                             w == piezas[j].valor
                         IN  /\ c \in DOMAIN Base \ {k} /\ Alcance(c, w) \cap Alcance(k, v) # {}
                             /\ ~Cabe(c, w) \/ ~Cabe(k, v)
    IN  \A k \in DOMAIN Base, i \in 0 .. Len(piezas) : EsLaUltima(i, k) =>
          \/ Cadena(config, k) = Dado(i, k)
          \/ \E j \in i + 1 .. Len(piezas) : Pisa(j, k, Dado(i, k))

\* A question reads what was typed for it, in login, menus, pauses and
\* confirmations, as long as nobody has typed more than ENTER at a pause,
\* two letters at s/n or a buffer at the rest: from then on what is left
\* answers the next.
EnSuPaso == (Hay /\ ~deMas) => entrada.para = pc

\* A line that is not valid never takes the user out of a menu, even if the
\* last option of an earlier visit was the one that leaves: op starts again.
SoloOpcionSale == [][(rol # ROL_INVALIDO /\ rol' = ROL_INVALIDO) => pc \in {"menu", "confirmar"}]_vars

\* Once its input has come to its end the console never ends by itself: every
\* read that fails is a wrong login, an invalid option or a no.
CierreSinFin == [][(cerrada /\ ~Hay) => pc' # "fin"]_vars

\* The console does not spin while its input is open: it comes to wait for its
\* user, whatever was typed.
EsperaAlUsuario == []<>(~Hay \/ cerrada \/ pc = "fin")
===========================================================================
