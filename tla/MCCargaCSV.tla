---------------------------- MODULE MCCargaCSV ----------------------------
(***************************************************************************)
(* CargaCSV on small files: two users with one e-mail, a flight whose      *)
(* empty field moves its date into the destination, a piece of luggage     *)
(* whose empty field leaves it short, and the V.. code equipajes.csv has   *)
(* where an id is expected.                                                *)
(***************************************************************************)
EXTENDS CargaCSV

MCFichero ==
  [aeropuertos |-> << <<"MAD", "Barajas", "Madrid">>, <<"BIO", "Loiu", "Bilbao">> >>,
   vuelos      |-> << <<"V1", "IB", "MAD", "BIO", "2026", "10">>,
                      <<"V2", "", "MAD", "BIO", "2026", "10">> >>,
   usuarios    |-> << <<"11A", "Ana", "Gil", "ana@x">>, <<"22B", "Eva", "Paz", "ana@x">> >>,
   equipajes   |-> << <<"E1", "", "V1">>, <<"E2", "11A", "V1">> >>]

MCNumero == [campo \in {"2026", "10"} |-> IF campo = "10" THEN 10 ELSE 2026]
===========================================================================
