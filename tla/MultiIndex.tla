----------------------------- MODULE MultiIndex -----------------------------
(***************************************************************************)
(* eosio::multi_index as the contracts use it: a table is a function from  *)
(* the primary keys it holds to its rows.  The library is not part of the  *)
(* repository; what is written here is what the calls in contracts/ rely   *)
(* on.  find(k) # end() is "k \in DOMAIN t", and each operator below is     *)
(* applied only where the library's own checks let the call through:       *)
(* emplace needs a fresh primary key, modify and erase a row that exists.  *)
(***************************************************************************)

Table(Keys, Rows) == UNION {[D -> Rows] : D \in SUBSET Keys}

NoRows == [k \in {} |-> k]

Emplace(t, k, row) == [x \in DOMAIN t \union {k} |-> IF x = k THEN row ELSE t[x]]

Modify(t, k, row) == [t EXCEPT ![k] = row]

Erase(t, k) == [x \in DOMAIN t \ {k} |-> t[x]]
=============================================================================
