------------------------------- MODULE Table -------------------------------
(***************************************************************************)
(* Result rows and the four passes over them: deduplication of the         *)
(* client's table (src/src/common/table.c), and appending, type extraction *)
(* and merging in the browser (src/src/browser/main.c).                    *)
(*                                                                         *)
(* A row is a umdns_result_t; "" and 0 are its empty fields.  A parsed     *)
(* record fills the fields its rr type has and leaves the others empty.    *)
(* A pass is the function from the number of rows read to what it has      *)
(* made of them; the body of its loop is an operator of its own.           *)
(***************************************************************************)
EXTENDS Integers, Sequences, SequencesExt

EnumType == "_services._dns-sd._udp.local"
NoRow == [rrtype |-> "", instance |-> "", hostname |-> "", service_type |-> "",
          address |-> "", port |-> 0, txt |-> ""]

----------------------------------------------------------------------------
(* umdns_table_deduplicate_results compacts in place: t.rows is the array,  *)
(* t.count the write index.                                                 *)

Keep(t, i) == [rows  |-> [t.rows EXCEPT ![t.count + 1] = t.rows[i]],
               count |-> t.count + 1]

\* Mutant: a row is compared with the last one kept only.
KeepRuns(t, i) ==
  IF t.count > 0 /\ t.rows[t.count] = t.rows[i] THEN t ELSE Keep(t, i)

KeepNew(t, i) ==
  IF \E k \in 1..t.count : t.rows[k] = t.rows[i] THEN t ELSE Keep(t, i)

Deduplicate(results) ==
  LET compacted[n \in 0..Len(results)] ==
        IF n = 0 THEN [rows |-> results, count |-> 0] ELSE KeepNew(compacted[n - 1], n)
      t == compacted[Len(results)]
  IN  SubSeq(t.rows, 1, t.count)

----------------------------------------------------------------------------
(* append_results_unique compares every field but rrtype.                   *)

Alike(a, b) == [a EXCEPT !.rrtype = ""] = [b EXCEPT !.rrtype = ""]

\* Mutant: one row too many.
AppendRowOneMore(d, max, r) ==
  IF Len(d) > max \/ \E k \in 1..Len(d) : Alike(d[k], r) THEN d ELSE Append(d, r)

\* Mutant: the newest row goes first.
PrependRow(d, max, r) ==
  IF Len(d) >= max \/ \E k \in 1..Len(d) : Alike(d[k], r) THEN d ELSE <<r>> \o d

AppendRow(d, max, r) ==
  IF Len(d) >= max \/ \E k \in 1..Len(d) : Alike(d[k], r) THEN d ELSE Append(d, r)

AppendUnique(dst, max, src) ==
  LET filled[n \in 0..Len(src)] ==
        IF n = 0 THEN dst ELSE AppendRow(filled[n - 1], max, src[n])
  IN  filled[Len(src)]

----------------------------------------------------------------------------
(* extract_service_types: the distinct targets of the enumeration's PTRs.   *)

NamesType(r) == r.rrtype = "PTR" /\ r.service_type = EnumType /\ r.instance # ""

TypesIn(rows) == {r.instance : r \in {x \in ToSet(rows) : NamesType(x)}}

\* Mutant: types are not compared with those found before.
AddTypeRepeated(ts, max, r) ==
  IF Len(ts) >= max \/ ~NamesType(r) THEN ts ELSE Append(ts, r.instance)

AddType(ts, max, r) ==
  IF Len(ts) >= max \/ ~NamesType(r) \/ \E k \in 1..Len(ts) : ts[k] = r.instance
  THEN ts ELSE Append(ts, r.instance)

ServiceTypes(results, max) ==
  LET found[n \in 0..Len(results)] ==
        IF n = 0 THEN << >> ELSE AddType(found[n - 1], max, results[n])
  IN  found[Len(results)]

----------------------------------------------------------------------------
(* merge_service_results: one row per instance, each empty field filled by  *)
(* the first row that has it.                                               *)

\* Mutant: a later host and port replace the first.
FillLatest(a, b) ==
  [a EXCEPT !.hostname     = IF b.hostname # "" THEN b.hostname ELSE @,
            !.service_type = IF @ = "" THEN b.service_type ELSE @,
            !.address      = IF @ = "" THEN b.address ELSE @,
            !.port         = IF b.port # 0 THEN b.port ELSE @,
            !.txt          = IF @ = "" THEN b.txt ELSE @]

\* Mutant: the port follows the last row that has one.
FillNewPort(a, b) ==
  [a EXCEPT !.hostname     = IF @ = "" THEN b.hostname ELSE @,
            !.service_type = IF @ = "" THEN b.service_type ELSE @,
            !.address      = IF @ = "" THEN b.address ELSE @,
            !.port         = IF b.port # 0 THEN b.port ELSE @,
            !.txt          = IF @ = "" THEN b.txt ELSE @]

Fill(a, b) ==
  [a EXCEPT !.hostname     = IF @ = "" THEN b.hostname ELSE @,
            !.service_type = IF @ = "" THEN b.service_type ELSE @,
            !.address      = IF @ = "" THEN b.address ELSE @,
            !.port         = IF @ = 0 THEN b.port ELSE @,
            !.txt          = IF @ = "" THEN b.txt ELSE @]

Mergeable(r) == r.instance # "" /\ r.service_type # EnumType

MergeRow(m, r) ==
  LET same == {k \in 1..Len(m) : m[k].instance = r.instance} IN
  IF ~Mergeable(r) THEN m
  ELSE IF same = {} THEN Append(m, r)
  ELSE [m EXCEPT ![Min(same)] = Fill(@, r)]

Merge(results) ==
  LET merged[n \in 0..Len(results)] ==
        IF n = 0 THEN << >> ELSE MergeRow(merged[n - 1], results[n])
  IN  merged[Len(results)]

----------------------------------------------------------------------------
(* What the passes are to yield: the properties compare them with this.     *)

\* The place of position i among those of F.
Place(F, i) == Cardinality({j \in F : j <= i})

\* s holds v of the members of F, in their order, as many as fit.
InOrder(s, F, max, v) ==
  /\ Len(s) = IF Cardinality(F) < max THEN Cardinality(F) ELSE max
  /\ \A i \in F : Place(F, i) <= max => s[Place(F, i)] = v[i]

\* The positions of S whose key none before them has.
Leading(S, key) == {i \in S : \A j \in S : j < i => key[j] # key[i]}

\* Of rows, by position: all but the type, and the instance.
Untyped(rs) == [i \in DOMAIN rs |-> [rs[i] EXCEPT !.rrtype = ""]]
InstancesOf(rs) == [i \in DOMAIN rs |-> rs[i].instance]

\* A field's first value, if not empty, among n rows of one instance.
FirstOf(rs, n, inst, field, empty) ==
  LET have == {i \in 1..n : /\ Mergeable(rs[i]) /\ rs[i].instance = inst
                            /\ rs[i][field] # empty}
  IN  IF have = {} THEN empty ELSE rs[Min(have)][field]
=============================================================================
