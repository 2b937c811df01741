----------------------------- MODULE MCConsola -----------------------------
(***************************************************************************)
(* Consola with accounts of a letter or two, which fit in fields of three  *)
(* bytes, and files with comments, repeated and unknown keys, a value that *)
(* runs on into the next field, and lines that fgets returns in two        *)
(* pieces, one with a value that runs over three accounts.                 *)
(***************************************************************************)
EXTENDS Consola

a == <<"a">>
b == <<"b">>
c == <<"c">>
x7 == <<"x", "7">>
ca == <<"c", "a">>
nunca == <<"n", "u", "n">> \o ca
larguisima == nunca \o <<"b", "7">>
largo == nunca \o <<"x", "c", "a", "b", "a", "b">>

MCRespuestas == {<<>>, <<"1">>, <<"2">>, <<"6">>, <<"7">>, <<"s">>, x7, nunca}
MCLineas == {<<>>, a, b, c, ca, larguisima} \cup MCRespuestas
MCRutaLog == <<"l">>
MCValores == {a, b, c, nunca, largo, MCRutaLog}

\* admin a a, empleado b b, pasajero c c, as config.txt has them.
Cuentas ==
  << <<Asigna("admin_user", a)>>, <<Asigna("admin_pass", a)>>,
     <<Asigna("empleado_user", b)>>, <<Asigna("empleado_pass", b)>>,
     <<Asigna("pasajero_user", c)>>, <<Asigna("pasajero_pass", c)>> >>

\* Lines that change nothing, change an account or more, or come in two pieces.
Sueltas ==
  { <<OTRO_TROZO>>, <<Asigna("otra", a)>>, <<Asigna("ruta_log", a)>>,
    <<Asigna("ruta_aeropuertos", largo)>>,
    <<Asigna("admin_pass", b)>>, <<OTRO_TROZO, Asigna("pasajero_pass", a)>>,
    <<Asigna("admin_user", nunca)>>, <<Asigna("pasajero_pass", nunca)>>,
    <<Asigna("admin_pass", largo), Asigna("admin_pass", a)>> }

MCArchivos ==
  {antes \o Cuentas \o despues :
     antes \in {<<>>} \cup {<<l>> : l \in Sueltas},
     despues \in {<<>>} \cup {<<l>> : l \in Sueltas}}
============================================================================
