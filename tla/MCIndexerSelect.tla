--------------------------- MODULE MCIndexerSelect ---------------------------
(* Launches of IndexerSelect on a small machine, and their batches.         *)
EXTENDS IndexerSelect

Req(i, q, seq, verify) ==
  [id |-> i, q |-> q, seq |-> seq, ub |-> seq, verify |-> verify]

\* sort_batch_req_ids: verification first, then full decodes, then by length.
Before(full, x, y) ==
  LET key(r) == <<IF r.verify THEN 0 ELSE 1, IF r.q = full THEN 0 ELSE 1, r.q>>
      a == key(x)
      c == key(y)
  IN \/ a[1] < c[1]
     \/ a[1] = c[1] /\ a[2] < c[2]
     \/ a[1] = c[1] /\ a[2] = c[2] /\ a[3] <= c[3]

\* Which requests a batch of k has: a row changes hands from step to step.
Ids(k) == CASE k = 1 -> <<2>> [] k = 2 -> <<3, 1>> [] k = 3 -> <<1, 2, 3>>

\* Batches of up to n requests of the kinds in menu, <<q, seq, verify>>.
Mixed(full, menu, n) ==
  LET of(ids, k) ==
        {s \in [1..k -> {Req(i, m[1], m[2], m[3]) : i \in 1..3, m \in menu}] :
           /\ \A j \in 1..k : s[j].id = ids[j]
           /\ \A j \in 1..(k - 1) : Before(full, s[j], s[j + 1])}
      size(s) == MapThenSumSet(LAMBDA j : s[j].q, DOMAIN s)
  IN {[reqs |-> s, pads |-> 0, tokens |-> size(s)] :
        s \in {t \in UNION {of(Ids(k), k) : k \in 1..n} :
                 size(t) <= MaxTokens}}

\* A full graph of three rows for two requests.
Padded(q) ==
  {[reqs |-> <<Req(1, q, 5, TRUE), Req(2, q, 9, TRUE)>>, pads |-> 1, tokens |-> 3 * q]}

Pooling(spec, deepGemm, menu) ==
  [kpool |-> 3, spec |-> spec, deepGemm |-> deepGemm, topk |-> 6, workspace |-> 6,
   maxLogits |-> 22, factor |-> 2, menu |-> menu]

\* Three drafts on the Triton fallback: flattened decodes, short extends,
\* prefills short and long, and a padded graph, whose write raises.
Mtp        == Pooling(3, FALSE, "mtp")
MtpBatches == Padded(4) \cup Mixed(4,
  {<<4, 9, TRUE>>, <<3, 6, TRUE>>, <<1, 5, FALSE>>, <<2, 2, FALSE>>,
   <<5, 5, FALSE>>, <<6, 13, FALSE>>}, 3)

\* One draft: native rows, rows without drafts.
Native        == Pooling(1, TRUE, "depth1")
Depth1Batches == Mixed(2,
  {<<2, 9, TRUE>>, <<2, 5, TRUE>>, <<1, 10, FALSE>>, <<5, 5, FALSE>>,
   <<6, 13, FALSE>>}, 3)

\* Without pools: every token is a key of its own.
NoPools ==
  [kpool |-> 1, spec |-> 3, deepGemm |-> FALSE, topk |-> 6, workspace |-> 14,
   maxLogits |-> 40, factor |-> 1, menu |-> "plain"]
PlainBatches ==
  Padded(4) \cup Mixed(4,
    {<<4, 9, TRUE>>, <<3, 6, TRUE>>, <<5, 5, FALSE>>, <<6, 13, FALSE>>}, 2)

SmallLaunches == {Mtp, Native, NoPools}

\* The launch of the finding: one draft on the Triton kernels.
Depth1Launches == {Pooling(1, FALSE, "depth1")}

\* No drafts: a prompt shorter than a pool behind a prefill that is cut into
\* slices, so that no chunk has its row.
UnkeyedLaunches == {Pooling(0, FALSE, "unkeyed")}
UnkeyedBatches  == Mixed(1, {<<1, 9, FALSE>>, <<2, 2, FALSE>>, <<6, 13, FALSE>>}, 3)

BatchesOf(l) ==
  CASE l.menu = "mtp"    -> MtpBatches
    [] l.menu = "depth1" -> Depth1Batches
    [] l.menu = "plain"  -> PlainBatches
    [] l.menu = "unkeyed" -> UnkeyedBatches
=============================================================================
