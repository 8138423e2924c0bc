---------------------------- MODULE AdmissionRows ----------------------------
(***************************************************************************)
(* The inductive invariant that ties offers, applications and candidates   *)
(* together, and what follows from it, for every value of the constants.   *)
(***************************************************************************)
EXTENDS AdmissionProofs

\* What relates the rows of the four tables to one another.
RowInv ==
  /\ ApplicationMirrorsOffers
  /\ AcceptedOnce
  /\ NoPendingAfterAccept
  /\ ElsewhereIsReal

Terminal == {"DECLINED", "EXPIRED", "ACCEPTED"}

-----------------------------------------------------------------------------
\* One application and its rows.

\* An offer row is named by its application and its number.
LEMMA OfferPair ==
  \A o \in OfferId : o = <<o[1], o[2]>> /\ o[1] \in Application /\ o[2] \in Attempt
  BY DEF OfferId

\* An application with an active row has the status that row gives it, and
\* the row is its only active one.
LEMMA ActiveRow ==
  ASSUME TypeOK, NEW i \in Application, Mirrored(i), NEW k \in Attempt,
         offer[<<i, k>>] \in {"PENDING", "ACCEPTED"}
  PROVE  /\ application[i] = IF offer[<<i, k>>] = "PENDING" THEN "OFFERED" ELSE "ACCEPTED"
         /\ \A m \in Attempt : m # k => offer[<<i, m>>] \notin {"PENDING", "ACCEPTED"}
         /\ \A m \in Attempt : m < k => offer[<<i, m>>] \in {"DECLINED", "EXPIRED"}
         /\ \A m \in Attempt : m > k => offer[<<i, m>>] = "NONE"
<1>1. application[i] \notin {"WAITING", "INELIGIBLE"}
  BY DEF Mirrored, RowsOf
<1>2. PICK last \in RowsOf(i) :
         /\ offer[<<i, last>>] =
              IF application[i] = "OFFERED" THEN "PENDING" ELSE application[i]
         /\ \A m \in Attempt \ {last} :
              offer[<<i, m>>] \in IF m < last THEN {"DECLINED", "EXPIRED"} ELSE {"NONE"}
  BY <1>1 DEF Mirrored
<1>3. last = k
  BY <1>2 DEF Attempt
<1>4. application[i] \in ApplicationStatus
  BY DEF TypeOK
<1>5. \A m \in Attempt : m > k => m # k /\ ~(m < k)
  BY BoundAssumption DEF Attempt
<1>6. QED
  BY <1>1, <1>2, <1>3, <1>4, <1>5 DEF ApplicationStatus

\* The row an INSERT uses follows all the rows of the application.
LEMMA NewRow ==
  ASSUME TypeOK, NEW i \in Application, Mirrored(i),
         application[i] \in {"WAITING", "DECLINED", "EXPIRED"}, FreeSlots(i) # {}
  PROVE  \E k \in Attempt :
           /\ NextSlots(i) = {k}
           /\ offer[<<i, k>>] = "NONE"
           /\ \A m \in Attempt : m < k => offer[<<i, m>>] \in {"DECLINED", "EXPIRED"}
           /\ \A m \in Attempt : m > k => offer[<<i, m>>] = "NONE"
<1>1. CASE application[i] = "WAITING"
  <2>1. \A k \in Attempt : offer[<<i, k>>] = "NONE"
    BY <1>1 DEF Mirrored, RowsOf
  <2>a. FreeSlots(i) = Attempt
    BY <2>1 DEF FreeSlots
  <2>b. 1 \in Attempt /\ \A m \in Attempt : 1 <= m /\ (m <= 1 => m = 1)
    BY BoundAssumption DEF Attempt
  <2>2. NextSlots(i) = {1} /\ 1 \in Attempt
    BY <2>a, <2>b DEF NextSlots
  <2>3. \A m \in Attempt : ~(m < 1)
    BY BoundAssumption DEF Attempt
  <2>4. QED
    BY <2>1, <2>2, <2>3
<1>2. CASE application[i] \in {"DECLINED", "EXPIRED"}
  <2>1. PICK last \in RowsOf(i) :
           /\ offer[<<i, last>>] = application[i]
           /\ \A m \in Attempt \ {last} :
                offer[<<i, m>>] \in IF m < last THEN {"DECLINED", "EXPIRED"} ELSE {"NONE"}
    BY <1>2 DEF Mirrored
  <2>2. last \in Attempt
    BY DEF RowsOf
  <2>3. FreeSlots(i) = {m \in Attempt : m > last}
    BY <1>2, <2>1, <2>2, BoundAssumption DEF FreeSlots, Attempt
  <2>4. last + 1 \in FreeSlots(i)
    BY <2>2, <2>3, BoundAssumption DEF Attempt
  <2>5. NextSlots(i) = {last + 1}
    BY <2>2, <2>3, <2>4, BoundAssumption DEF NextSlots, Attempt
  <2>6. \A m \in Attempt : /\ m < last + 1 => m = last \/ m < last
                           /\ m > last + 1 => m > last /\ ~(m < last) /\ m # last
    BY <2>2, BoundAssumption DEF Attempt
  <2>7. last + 1 \in Attempt /\ last + 1 # last /\ ~(last + 1 < last)
    BY <2>2, <2>4, BoundAssumption DEF FreeSlots, Attempt
  <2>8. QED
    BY <1>2, <2>1, <2>5, <2>6, <2>7
<1>3. QED
  BY <1>1, <1>2

\* Untouched, or marked INELIGIBLE while it has no row.
LEMMA MirrorKept ==
  ASSUME NEW i \in Application, Mirrored(i),
         \A k \in Attempt : offer'[<<i, k>>] = offer[<<i, k>>],
         \/ application'[i] = application[i]
         \/ application[i] = "WAITING" /\ application'[i] = "INELIGIBLE"
  PROVE  Mirrored(i)'
  BY DEF Mirrored, RowsOf

\* Offered: a row is inserted.
LEMMA MirrorOffered ==
  ASSUME TypeOK, NEW i \in Application, Mirrored(i),
         application[i] \in {"WAITING", "DECLINED", "EXPIRED"}, FreeSlots(i) # {},
         \A k \in Attempt :
           offer'[<<i, k>>] = IF k \in NextSlots(i) THEN "PENDING" ELSE offer[<<i, k>>],
         application'[i] = "OFFERED"
  PROVE  Mirrored(i)'
<1>1. PICK k \in Attempt :
           /\ NextSlots(i) = {k}
           /\ offer[<<i, k>>] = "NONE"
           /\ \A m \in Attempt : m < k => offer[<<i, m>>] \in {"DECLINED", "EXPIRED"}
           /\ \A m \in Attempt : m > k => offer[<<i, m>>] = "NONE"
  BY NewRow
<1>2. \A m \in Attempt \ {k} : m < k \/ m > k
  BY BoundAssumption DEF Attempt
<1>3. \A m \in Attempt \ {k} :
        offer'[<<i, m>>] \in IF m < k THEN {"DECLINED", "EXPIRED"} ELSE {"NONE"}
  BY <1>1, <1>2
<1>4. offer'[<<i, k>>] = "PENDING"
  BY <1>1
<1>5. QED
  BY <1>3, <1>4 DEF Mirrored, RowsOf

\* Settled: the pending row leaves PENDING and the application follows.
LEMMA MirrorSettled ==
  ASSUME TypeOK, NEW i \in Application, Mirrored(i),
         NEW k \in Attempt, offer[<<i, k>>] = "PENDING",
         NEW new \in Terminal, application'[i] = new,
         \A m \in Attempt :
           offer'[<<i, m>>] = IF m = k THEN new ELSE offer[<<i, m>>]
  PROVE  Mirrored(i)'
<1>1. /\ \A m \in Attempt : m < k => offer[<<i, m>>] \in {"DECLINED", "EXPIRED"}
      /\ \A m \in Attempt : m > k => offer[<<i, m>>] = "NONE"
  BY ActiveRow
<1>2. \A m \in Attempt \ {k} : m < k \/ m > k
  BY BoundAssumption DEF Attempt
<1>3. \A m \in Attempt \ {k} :
        offer'[<<i, m>>] \in IF m < k THEN {"DECLINED", "EXPIRED"} ELSE {"NONE"}
  BY <1>1, <1>2
<1>4. offer'[<<i, k>>] = new /\ k \in RowsOf(i)'
  BY DEF Terminal, RowsOf
<1>5. QED
  BY <1>3, <1>4 DEF Mirrored, Terminal

-----------------------------------------------------------------------------
\* The groups of writes the transactions are made of.

\* A fill, with the expired offers in S settled first, and a settlement alone.
LEMMA FillMirrors ==
  ASSUME TypeOK, ApplicationMirrorsOffers, NEW a \in Activity,
         NEW S \in SUBSET OfferId, \A o \in S : offer[o] = "PENDING",
         NEW T \in SUBSET Waiting(a), NEW U \in SUBSET Waiting(a), T \cap U = {},
         \A i \in T : FreeSlots(i) # {},
         offer' = WithOffers(S, "EXPIRED", NewRows(T)),
         application' = [i \in Application |->
           IF i \in T THEN "OFFERED"
           ELSE IF i \in U THEN "INELIGIBLE"
           ELSE WithApplications(AppsOf(S), "EXPIRED")[i]]
  PROVE  ApplicationMirrorsOffers'
<1> SUFFICES ASSUME NEW i \in Application PROVE Mirrored(i)'
  BY DEF ApplicationMirrorsOffers
<1>1. Mirrored(i)
  BY DEF ApplicationMirrorsOffers
<1>2. \A k \in Attempt : <<i, k>> \in OfferId
  BY DEF OfferId
<1>3. \A k \in Attempt : <<i, k>> \in S => offer[<<i, k>>] = "PENDING"
  OBVIOUS
<1>4. \A k \in Attempt : <<i, k>> \in NewRows(T) <=> i \in T /\ k \in NextSlots(i)
  BY <1>2 DEF NewRows
<1>5. i \in AppsOf(S) <=> \E k \in Attempt : <<i, k>> \in S
  <2>1. \A k \in Attempt : <<i, k>> \in S => i \in AppsOf(S)
    BY DEF AppsOf
  <2>2. ASSUME i \in AppsOf(S) PROVE \E k \in Attempt : <<i, k>> \in S
    <3>1. PICK o \in S : o[1] = i
      BY <2>2 DEF AppsOf
    <3>2. o = <<i, o[2]>> /\ o[2] \in Attempt
      BY <3>1, OfferPair
    <3>3. QED
      BY <3>2
  <2>3. QED
    BY <2>1, <2>2
<1>6. \A k \in Attempt : offer'[<<i, k>>] =
        IF <<i, k>> \in S THEN "EXPIRED"
        ELSE IF i \in T /\ k \in NextSlots(i) THEN "PENDING" ELSE offer[<<i, k>>]
  BY <1>2, <1>4 DEF WithOffers
<1>7. application'[i] =
        IF i \in T THEN "OFFERED"
        ELSE IF i \in U THEN "INELIGIBLE"
        ELSE IF i \in AppsOf(S) /\ application[i] = "OFFERED" THEN "EXPIRED"
        ELSE application[i]
  BY DEF WithApplications
<1>8. \A k \in Attempt : <<i, k>> \in S => application[i] = "OFFERED"
  BY <1>1, <1>3, ActiveRow
<1>9. i \in T \cup U => application[i] = "WAITING"
  BY DEF Waiting
<1>10. CASE i \in T
  <2>1. \A k \in Attempt : <<i, k>> \notin S
    BY <1>8, <1>9, <1>10
  <2>2. QED
    BY <1>1, <1>6, <1>7, <1>9, <1>10, <2>1, MirrorOffered
<1>11. CASE i \in U
  <2>1. \A k \in Attempt : offer'[<<i, k>>] = offer[<<i, k>>]
    BY <1>6, <1>8, <1>9, <1>11
  <2>2. QED
    BY <1>1, <1>7, <1>9, <1>11, <2>1, MirrorKept
<1>12. CASE i \notin T \cup U /\ i \in AppsOf(S)
  <2>1. PICK k \in Attempt : <<i, k>> \in S
    BY <1>5, <1>12
  <2>2. \A m \in Attempt : m # k => <<i, m>> \notin S
    BY <1>1, <1>3, <2>1, ActiveRow
  <2>3. \A m \in Attempt :
          offer'[<<i, m>>] = IF m = k THEN "EXPIRED" ELSE offer[<<i, m>>]
    BY <1>6, <1>12, <2>1, <2>2
  <2>4. application'[i] = "EXPIRED"
    BY <1>7, <1>8, <1>12, <2>1
  <2>5. "EXPIRED" \in Terminal
    BY DEF Terminal
  <2>6. QED
    BY <1>1, <1>3, <2>1, <2>3, <2>4, <2>5, MirrorSettled
<1>13. CASE i \notin T \cup U /\ i \notin AppsOf(S)
  <2>1. \A k \in Attempt : offer'[<<i, k>>] = offer[<<i, k>>]
    BY <1>5, <1>6, <1>13
  <2>2. QED
    BY <1>1, <1>7, <1>13, <2>1, MirrorKept
<1>14. QED
  BY <1>10, <1>11, <1>12, <1>13

\* A fill keeps the row invariant when it issues to eligible applications and
\* skips only those whose candidate accepted elsewhere.
LEMMA FillRows ==
  ASSUME TypeOK, RowInv, NEW a \in Activity,
         NEW S \in SUBSET OfferId, \A o \in S : offer[o] = "PENDING",
         NEW T \in SUBSET Eligible(a), NEW U \in SUBSET (Waiting(a) \ Eligible(a)),
         \A i \in T : FreeSlots(i) # {},
         offer' = WithOffers(S, "EXPIRED", NewRows(T)),
         application' = [i \in Application |->
           IF i \in T THEN "OFFERED"
           ELSE IF i \in U THEN "INELIGIBLE"
           ELSE WithApplications(AppsOf(S), "EXPIRED")[i]],
         accepted' = accepted, declineSource' = declineSource
  PROVE  RowInv'
<1>1. ApplicationMirrorsOffers'
  <2>1. T \in SUBSET Waiting(a) /\ U \in SUBSET Waiting(a) /\ T \cap U = {}
    BY DEF Eligible
  <2>2. QED
    BY <2>1, FillMirrors DEF RowInv
<1>2. \A o \in NewRows(T) : offer[o] = "NONE" /\ o[1] \in T
  BY OfferPair DEF NewRows, NextSlots, FreeSlots
<1>3. \A o \in OfferId : offer'[o] = "ACCEPTED" <=> offer[o] = "ACCEPTED"
  BY <1>2 DEF WithOffers
<1>4. AcceptedOnce'
  <2>1. \A c \in Candidate : accepted[c] # NoOffer => accepted[c] \in OfferId
    BY DEF TypeOK
  <2>2. QED
    BY <1>3, <2>1 DEF AcceptedOnce, RowInv, CandOf
<1>5. NoPendingAfterAccept'
  <2>1. \A i \in T : accepted[CandidateOf[i]] = NoOffer
    BY DEF Eligible
  <2>2. \A o \in OfferId : offer'[o] = "PENDING" => offer[o] = "PENDING" \/ o \in NewRows(T)
    BY DEF WithOffers
  <2>3. QED
    BY <1>2, <2>1, <2>2 DEF NoPendingAfterAccept, RowInv, CandOf
<1>6. ElsewhereIsReal'
  <2>1. ASSUME NEW i \in U
        PROVE  /\ accepted[CandidateOf[i]] # NoOffer
               /\ ActOf(accepted[CandidateOf[i]]) # ActivityOf[i]
    <3>1. i \in Application /\ application[i] = "WAITING" /\ ActivityOf[i] = a
      BY <2>1 DEF Waiting
    <3>2. accepted[CandidateOf[i]] # NoOffer
      BY <2>1 DEF Eligible
    <3> DEFINE p == accepted[CandidateOf[i]]
    <3>3. p \in OfferId /\ offer[p] = "ACCEPTED" /\ CandidateOf[p[1]] = CandidateOf[i]
      BY <3>1, <3>2, ApplicationAssumption DEF TypeOK, RowInv, AcceptedOnce, CandOf
    <3>4. application[p[1]] = "ACCEPTED" /\ p[1] \in Application
      <4>1. p = <<p[1], p[2]>> /\ p[1] \in Application /\ p[2] \in Attempt
        BY <3>3, OfferPair
      <4>2. offer[<<p[1], p[2]>>] = "ACCEPTED" /\ Mirrored(p[1])
        BY <3>3, <4>1 DEF RowInv, ApplicationMirrorsOffers
      <4> HIDE DEF p
      <4>3. QED
        BY <4>1, <4>2, ActiveRow
    <3>5. ActivityOf[p[1]] # ActivityOf[i]
      BY <3>1, <3>3, <3>4, ApplicationAssumption
    <3>6. QED
      BY <3>2, <3>5 DEF ActOf
  <2>2. \A i \in Application :
          application'[i] = "INELIGIBLE" => i \in U \/ application[i] = "INELIGIBLE"
    BY DEF WithApplications
  <2>3. QED
    BY <2>1, <2>2 DEF ElsewhereIsReal, RowInv, CandOf, ActOf
<1>7. QED
  BY <1>1, <1>4, <1>5, <1>6 DEF RowInv

\* An acceptance keeps it: the candidate's other pending offers go with it.
LEMMA AcceptRows ==
  ASSUME TypeOK, RowInv, NEW o \in OfferId, Accept(o)
  PROVE  RowInv'
<1> DEFINE c == CandOf(o)
           linked == PendingOf(c) \ {o}
<1>a. o = <<o[1], o[2]>> /\ o[1] \in Application /\ o[2] \in Attempt /\ c \in Candidate
  BY OfferPair, ApplicationAssumption DEF CandOf
<1>b. offer[o] = "PENDING" /\ accepted[c] = NoOffer /\ application[o[1]] = "OFFERED"
  <2>1. offer[o] = "PENDING" /\ accepted[c] = NoOffer
    BY DEF Accept, RowInv, NoPendingAfterAccept
  <2>2. QED
    BY <2>1 DEF Accept
<1>c. Linked(o) = linked
  BY <1>b DEF Linked
<1>d. \A p \in linked : p \in OfferId /\ offer[p] = "PENDING" /\ CandOf(p) = c /\ p # o
  BY DEF PendingOf
<1>e. \A p \in OfferId : offer'[p] =
        IF p \in linked THEN "DECLINED" ELSE IF p = o THEN "ACCEPTED" ELSE offer[p]
  BY <1>c DEF Accept
<1>f. \A i \in Application : application'[i] =
        IF i = o[1] THEN "ACCEPTED"
        ELSE IF i \in AppsOf(linked) /\ application[i] = "OFFERED" THEN "DECLINED"
        ELSE application[i]
  BY <1>b, <1>c DEF Accept, WithApplications
<1>g. accepted' = [accepted EXCEPT ![c] = o] /\ accepted'[c] = o
  BY <1>a, <1>b DEF Accept, TypeOK
<1>h. \A p \in OfferId : declineSource'[p] =
        IF p \in linked THEN "CROSS_ACTIVITY" ELSE declineSource[p]
  BY <1>c DEF Accept
<1>i. \A p \in linked : p[1] # o[1] /\ ActOf(p) # ActOf(o)
  <2> SUFFICES ASSUME NEW p \in linked PROVE p[1] # o[1] /\ ActOf(p) # ActOf(o)
    OBVIOUS
  <2>1. p = <<p[1], p[2]>> /\ p[1] \in Application /\ p[2] \in Attempt
    BY <1>d, OfferPair
  <2>2. p[1] # o[1]
    <3>1. Mirrored(o[1]) /\ offer[<<o[1], o[2]>>] = "PENDING"
      BY <1>a, <1>b DEF RowInv, ApplicationMirrorsOffers
    <3>2. \A m \in Attempt : m # o[2] => offer[<<o[1], m>>] \notin {"PENDING", "ACCEPTED"}
      BY <1>a, <3>1, ActiveRow
    <3>3. p[1] = o[1] => p[2] # o[2] /\ offer[<<o[1], p[2]>>] = "PENDING"
      BY <1>a, <1>d, <2>1
    <3>4. QED
      BY <2>1, <3>2, <3>3
  <2>3. QED
    BY <1>a, <1>d, <2>1, <2>2, ApplicationAssumption DEF ActOf, CandOf
<1>1. ApplicationMirrorsOffers'
  <2> SUFFICES ASSUME NEW i \in Application PROVE Mirrored(i)'
    BY DEF ApplicationMirrorsOffers
  <2>1. Mirrored(i)
    BY DEF RowInv, ApplicationMirrorsOffers
  <2>2. \A k \in Attempt : <<i, k>> \in OfferId
    BY DEF OfferId
  <2>3. "ACCEPTED" \in Terminal /\ "DECLINED" \in Terminal
    BY DEF Terminal
  <2>4. CASE i = o[1]
    <3>1. \A m \in Attempt : <<i, m>> \notin linked
      BY <1>i, <2>4
    <3>2. \A m \in Attempt : offer'[<<i, m>>] = IF m = o[2] THEN "ACCEPTED" ELSE offer[<<i, m>>]
      BY <1>a, <1>e, <2>2, <2>4, <3>1
    <3>3. QED
      BY <1>a, <1>b, <1>f, <2>1, <2>3, <2>4, <3>2, MirrorSettled
  <2>5. CASE i # o[1] /\ i \in AppsOf(linked)
    <3>1. PICK p \in linked : p[1] = i
      BY <2>5 DEF AppsOf
    <3>2. p = <<i, p[2]>> /\ p[2] \in Attempt /\ offer[<<i, p[2]>>] = "PENDING"
      BY <1>d, <3>1, OfferPair
    <3>3. /\ application[i] = "OFFERED"
          /\ \A m \in Attempt : m # p[2] => offer[<<i, m>>] # "PENDING"
      BY <2>1, <3>2, ActiveRow
    <3>4. \A m \in Attempt : <<i, m>> \in linked <=> m = p[2]
      BY <1>d, <3>1, <3>2, <3>3
    <3>5. \A m \in Attempt : <<i, m>> # o
      BY <2>5
    <3>6. \A m \in Attempt : offer'[<<i, m>>] = IF m = p[2] THEN "DECLINED" ELSE offer[<<i, m>>]
      BY <1>e, <2>2, <3>4, <3>5
    <3>7. QED
      BY <1>f, <2>1, <2>3, <2>5, <3>2, <3>3, <3>6, MirrorSettled
  <2>6. CASE i # o[1] /\ i \notin AppsOf(linked)
    <3>1. \A m \in Attempt : <<i, m>> \notin linked /\ <<i, m>> # o
      BY <2>6 DEF AppsOf
    <3>2. QED
      BY <1>e, <1>f, <2>1, <2>2, <2>6, <3>1, MirrorKept
  <2>7. QED
    BY <2>4, <2>5, <2>6
<1>2. AcceptedOnce'
  <2>1. ASSUME NEW p \in OfferId, offer'[p] = "ACCEPTED"
        PROVE  accepted'[CandOf(p)] = p
    <3>1. CASE p = o
      BY <1>g, <3>1
    <3>2. CASE p # o
      <4>1. offer[p] = "ACCEPTED" /\ accepted[CandOf(p)] = p
        BY <1>e, <2>1, <3>2 DEF RowInv, AcceptedOnce
      <4>2. CandOf(p) # c
        BY <1>b, <4>1, NoOfferAssumption
      <4>3. QED
        BY <1>g, <4>1, <4>2
    <3>3. QED
      BY <3>1, <3>2
  <2>2. ASSUME NEW d \in Candidate, accepted'[d] # NoOffer
        PROVE  offer'[accepted'[d]] = "ACCEPTED" /\ CandOf(accepted'[d]) = d
    <3>1. CASE d = c
      BY <1>d, <1>e, <1>g, <3>1
    <3>2. CASE d # c
      <4>1. accepted'[d] = accepted[d]
        BY <1>g, <3>2
      <4>2. offer[accepted[d]] = "ACCEPTED" /\ CandOf(accepted[d]) = d /\ accepted[d] \in OfferId
        BY <2>2, <4>1 DEF RowInv, AcceptedOnce, TypeOK
      <4>3. QED
        BY <1>d, <1>e, <4>1, <4>2
    <3>3. QED
      BY <3>1, <3>2
  <2>3. QED
    BY <2>1, <2>2 DEF AcceptedOnce, CandOf
<1>3. NoPendingAfterAccept'
  <2>1. ASSUME NEW p \in OfferId, offer'[p] = "PENDING"
        PROVE  accepted'[CandOf(p)] = NoOffer
    <3>1. offer[p] = "PENDING" /\ p # o /\ p \notin linked
      BY <1>e, <2>1
    <3>2. CandOf(p) # c
      BY <3>1 DEF PendingOf
    <3>3. QED
      BY <1>g, <3>1, <3>2 DEF RowInv, NoPendingAfterAccept
  <2>2. QED
    BY <2>1 DEF NoPendingAfterAccept, CandOf
<1>4. ElsewhereIsReal'
  <2>1. \A d \in Candidate : accepted[d] # NoOffer => accepted'[d] = accepted[d]
    BY <1>b, <1>g
  <2>2. ASSUME NEW i \in Application, application'[i] = "INELIGIBLE"
        PROVE  /\ accepted'[CandidateOf[i]] # NoOffer
               /\ ActOf(accepted'[CandidateOf[i]]) # ActivityOf[i]
    <3>1. application[i] = "INELIGIBLE" /\ CandidateOf[i] \in Candidate
      BY <1>f, <2>2, ApplicationAssumption
    <3>2. QED
      BY <2>1, <3>1 DEF RowInv, ElsewhereIsReal
  <2>3. ASSUME NEW p \in OfferId, declineSource'[p] = "CROSS_ACTIVITY"
        PROVE  /\ accepted'[CandOf(p)] # NoOffer
               /\ ActOf(accepted'[CandOf(p)]) # ActOf(p)
    <3>1. CASE p \in linked
      BY <1>d, <1>g, <1>i, <3>1, NoOfferAssumption
    <3>2. CASE p \notin linked
      <4>1. declineSource[p] = "CROSS_ACTIVITY" /\ CandOf(p) \in Candidate
        BY <1>h, <2>3, <3>2, OfferPair, ApplicationAssumption DEF CandOf
      <4>2. QED
        BY <2>1, <4>1 DEF RowInv, ElsewhereIsReal
    <3>3. QED
      BY <3>1, <3>2
  <2>4. QED
    BY <2>2, <2>3 DEF ElsewhereIsReal, ActOf, CandOf
<1>5. QED
  BY <1>1, <1>2, <1>3, <1>4 DEF RowInv

\* A decline keeps it.
LEMMA DeclineRows ==
  ASSUME TypeOK, RowInv, NEW o \in OfferId, Decline(o)
  PROVE  RowInv'
<1>a. o = <<o[1], o[2]>> /\ o[1] \in Application /\ o[2] \in Attempt
  BY OfferPair
<1>b. offer[o] = "PENDING" /\ application[o[1]] = "OFFERED" /\ accepted' = accepted
  BY DEF Decline
<1>c. \A p \in OfferId : offer'[p] = IF p = o THEN "DECLINED" ELSE offer[p]
  BY DEF Decline, WithOffers
<1>d. \A i \in Application : application'[i] = IF i = o[1] THEN "DECLINED" ELSE application[i]
  BY <1>b DEF Decline, WithApplications
<1>1. ApplicationMirrorsOffers'
  <2> SUFFICES ASSUME NEW i \in Application PROVE Mirrored(i)'
    BY DEF ApplicationMirrorsOffers
  <2>1. Mirrored(i)
    BY DEF RowInv, ApplicationMirrorsOffers
  <2>2. \A k \in Attempt : <<i, k>> \in OfferId
    BY DEF OfferId
  <2>3. CASE i = o[1]
    <3>1. \A m \in Attempt : offer'[<<i, m>>] = IF m = o[2] THEN "DECLINED" ELSE offer[<<i, m>>]
      BY <1>a, <1>c, <2>2, <2>3
    <3>2. "DECLINED" \in Terminal
      BY DEF Terminal
    <3>3. QED
      BY <1>a, <1>b, <1>d, <2>1, <2>3, <3>1, <3>2, MirrorSettled
  <2>4. CASE i # o[1]
    <3>1. \A m \in Attempt : <<i, m>> # o
      BY <2>4
    <3>2. QED
      BY <1>c, <1>d, <2>1, <2>2, <2>4, <3>1, MirrorKept
  <2>5. QED
    BY <2>3, <2>4
<1>2. AcceptedOnce'
  BY <1>b, <1>c DEF RowInv, AcceptedOnce, CandOf, TypeOK
<1>3. NoPendingAfterAccept'
  BY <1>b, <1>c DEF RowInv, NoPendingAfterAccept, CandOf
<1>4. ElsewhereIsReal'
  <2>1. \A p \in OfferId : declineSource'[p] = "CROSS_ACTIVITY" => declineSource[p] = "CROSS_ACTIVITY"
    BY DEF Decline, TypeOK
  <2>2. QED
    BY <1>b, <1>d, <2>1 DEF RowInv, ElsewhereIsReal, ActOf, CandOf
<1>5. QED
  BY <1>1, <1>2, <1>3, <1>4 DEF RowInv

\* The issue of one offer keeps it.
LEMMA InsertRows ==
  ASSUME TypeOK, RowInv, NEW i \in Application,
         application[i] \in {"WAITING", "DECLINED", "EXPIRED"}, InsertOffer(i)
  PROVE  RowInv'
<1>a. \A p \in NewRows({i}) : p[1] = i /\ p[2] \in NextSlots(i) /\ offer[p] = "NONE"
  BY OfferPair DEF NewRows, NextSlots, FreeSlots
<1>b. \A p \in OfferId : offer'[p] = IF p \in NewRows({i}) THEN "PENDING" ELSE offer[p]
  BY DEF InsertOffer, WithOffers
<1>c. \A j \in Application : application'[j] = IF j = i THEN "OFFERED" ELSE application[j]
  BY DEF InsertOffer, TypeOK
<1>d. accepted' = accepted /\ accepted[CandidateOf[i]] = NoOffer /\ declineSource' = declineSource
  BY DEF InsertOffer
<1>1. ApplicationMirrorsOffers'
  <2> SUFFICES ASSUME NEW j \in Application PROVE Mirrored(j)'
    BY DEF ApplicationMirrorsOffers
  <2>1. Mirrored(j)
    BY DEF RowInv, ApplicationMirrorsOffers
  <2>2. \A k \in Attempt : <<j, k>> \in OfferId
    BY DEF OfferId
  <2>3. CASE j = i
    <3>1. \A k \in Attempt : <<j, k>> \in NewRows({i}) <=> k \in NextSlots(i)
      BY <2>2, <2>3 DEF NewRows
    <3>2. FreeSlots(i) # {}
      BY DEF InsertOffer
    <3>3. QED
      BY <1>b, <1>c, <2>1, <2>2, <2>3, <3>1, <3>2, MirrorOffered
  <2>4. CASE j # i
    <3>1. \A k \in Attempt : <<j, k>> \notin NewRows({i})
      BY <1>a, <2>4
    <3>2. QED
      BY <1>b, <1>c, <2>1, <2>2, <2>4, <3>1, MirrorKept
  <2>5. QED
    BY <2>3, <2>4
<1>2. AcceptedOnce'
  <2>1. \A p \in OfferId : offer'[p] = "ACCEPTED" <=> offer[p] = "ACCEPTED"
    BY <1>a, <1>b
  <2>2. \A c \in Candidate : accepted[c] # NoOffer => accepted[c] \in OfferId
    BY DEF TypeOK
  <2>3. QED
    BY <1>d, <2>1, <2>2 DEF RowInv, AcceptedOnce, CandOf
<1>3. NoPendingAfterAccept'
  BY <1>a, <1>b, <1>d DEF RowInv, NoPendingAfterAccept, CandOf
<1>4. ElsewhereIsReal'
  BY <1>c, <1>d DEF RowInv, ElsewhereIsReal, CandOf, ActOf
<1>5. QED
  BY <1>1, <1>2, <1>3, <1>4 DEF RowInv

\* It depends on the rows only.
LEMMA SameRows ==
  ASSUME RowInv, UNCHANGED <<application, offer, declineSource, accepted>>
  PROVE  RowInv'
<1>1. ApplicationMirrorsOffers'
  BY DEF RowInv, ApplicationMirrorsOffers, Mirrored, RowsOf
<1>2. AcceptedOnce' /\ NoPendingAfterAccept'
  BY DEF RowInv, AcceptedOnce, NoPendingAfterAccept, CandOf
<1>3. ElsewhereIsReal'
  BY DEF RowInv, ElsewhereIsReal, CandOf, ActOf
<1>4. QED
  BY <1>1, <1>2, <1>3 DEF RowInv

\* The transactions' own fill and settlement, as instances of FillRows.
LEMMA FillAfterRows ==
  ASSUME TypeOK, RowInv, NEW a \in Activity, NEW S \in SUBSET OfferId,
         \A o \in S : offer[o] = "PENDING", NEW room, FillAfter(a, S, room)
  PROVE  RowInv'
<1> DEFINE T == Issued(a, room)
           U == Reached(a, room) \ T
<1>1. T \in SUBSET Eligible(a) /\ U \in SUBSET (Waiting(a) \ Eligible(a))
  BY DEF Issued, Reached
<1>2. \A i \in T : FreeSlots(i) # {}
  BY DEF FillAfter
<1>3. /\ offer' = WithOffers(S, "EXPIRED", NewRows(T))
      /\ application' = [i \in Application |->
           IF i \in T THEN "OFFERED"
           ELSE IF i \in U THEN "INELIGIBLE"
           ELSE WithApplications(AppsOf(S), "EXPIRED")[i]]
      /\ accepted' = accepted /\ declineSource' = declineSource
  BY DEF FillAfter
<1> HIDE DEF T, U
<1>4. QED
  BY <1>1, <1>2, <1>3, FillRows

\* A settlement keeps it.
LEMMA SettleRows ==
  ASSUME TypeOK, RowInv, NEW a \in Activity, NEW S \in SUBSET Due(a), SettleExpired(S)
  PROVE  RowInv'
<1>1. S \in SUBSET OfferId /\ \A o \in S : offer[o] = "PENDING"
  BY DEF Due, OffersOf
<1>2. NewRows({}) = {}
  BY DEF NewRows
<1>3. WithApplications(AppsOf(S), "EXPIRED") =
        [i \in Application |->
           IF i \in {} THEN "OFFERED"
           ELSE IF i \in {} THEN "INELIGIBLE"
           ELSE WithApplications(AppsOf(S), "EXPIRED")[i]]
  BY DEF WithApplications
<1>4. /\ offer' = WithOffers(S, "EXPIRED", NewRows({}))
      /\ application' = WithApplications(AppsOf(S), "EXPIRED")
      /\ accepted' = accepted /\ declineSource' = declineSource
  BY <1>2 DEF SettleExpired
<1>5. QED
  BY <1>1, <1>3, <1>4, FillRows

-----------------------------------------------------------------------------
\* Every step preserves the row invariant.

\* The candidates' requests keep the row invariant.
LEMMA CandidateRows == TypeOK /\ RowInv /\ CandidateNext => RowInv'
<1> SUFFICES ASSUME TypeOK, RowInv, NEW o \in OfferId,
                    AcceptExpired(o) \/ Accept(o) \/ Decline(o)
             PROVE  RowInv'
  BY DEF CandidateNext
<1>1. CASE AcceptExpired(o)
  <2>1. ActOf(o) \in Activity
    BY ApplicationAssumption, OfferPair DEF ActOf
  <2>2. {o} \in SUBSET Due(ActOf(o)) /\ SettleExpired({o})
    BY <1>1 DEF AcceptExpired
  <2>3. QED
    BY <2>1, <2>2, SettleRows
<1>2. QED
  BY <1>1, AcceptRows, DeclineRows

\* The follow-ups and the failures keep it.
LEMMA FollowUpRows == TypeOK /\ RowInv /\ (FollowUpNext \/ Failure) => RowInv'
<1>1. ASSUME TypeOK, RowInv, NEW a \in Activity, PostCommitRefill(a)
      PROVE  RowInv'
  <2>1. FillAfter(a, {}, Seats(a, {}))
    BY <1>1 DEF PostCommitRefill, FillByRank
  <2>2. QED
    BY <1>1, <2>1, FillAfterRows
<1>2. ASSUME RowInv, NEW a \in Activity,
             \/ RecheckRefill(a) \/ RefillFails(a) \/ QuotaRefillFails(a)
             \/ QuotaSignalLost(a)
      PROVE  RowInv'
  BY <1>2, SameRows
  DEF RecheckRefill, RefillFails, QuotaRefillFails, QuotaSignalLost, rowVars
<1>3. ASSUME RowInv, Crash PROVE RowInv'
  BY <1>3, SameRows DEF Crash, rowVars
<1>4. QED
  BY <1>1, <1>2, <1>3 DEF FollowUpNext, Failure

\* The worker and the clock keep it.
LEMMA WorkerRows == TypeOK /\ RowInv /\ WorkerNext => RowInv'
<1>1. ASSUME TypeOK, RowInv, NEW a \in Activity, ExecuteIntents(a)
      PROVE  RowInv'
  <2>1. FillAfter(a, {}, Seats(a, {}))
    BY <1>1 DEF ExecuteIntents, FillByRank
  <2>2. QED
    BY <1>1, <2>1, FillAfterRows
<1>2. ASSUME TypeOK, RowInv, NEW a \in Activity, NEW S \in SUBSET Due(a), SettleDue(a, S)
      PROVE  RowInv'
  BY <1>2, SettleRows DEF SettleDue
<1>3. ASSUME RowInv, NEW o \in OfferId, PassDeadline(o)
      PROVE  RowInv'
  BY <1>3, SameRows DEF PassDeadline
<1>4. QED
  BY <1>1, <1>2, <1>3 DEF WorkerNext

\* The staff's lifecycle and configuration requests keep it.
LEMMA LifecycleRows == TypeOK /\ RowInv /\ LifecycleNext => RowInv'
<1>1. ASSUME TypeOK, RowInv, NEW a \in Activity, StartAdmission(a)
      PROVE  RowInv'
  <2>1. \E room : FillAfter(a, {}, room)
    BY <1>1 DEF StartAdmission
  <2>2. QED
    BY <1>1, <2>1, FillAfterRows
<1>2. ASSUME TypeOK, RowInv, NEW a \in Activity, ResumeRefill(a)
      PROVE  RowInv'
  <2>1. FillAfter(a, Due(a), Seats(a, Due(a)))
    BY <1>2 DEF ResumeRefill
  <2>2. Due(a) \in SUBSET OfferId /\ \A o \in Due(a) : offer[o] = "PENDING"
    BY DEF Due, OffersOf
  <2>3. QED
    BY <1>2, <2>1, <2>2, FillAfterRows
<1>3. ASSUME TypeOK, RowInv, NEW a \in Activity, Activate(a)
      PROVE  RowInv'
  BY <1>3, SettleRows DEF Activate
<1>4. ASSUME RowInv, NEW a \in Activity,
             \/ PauseAllAutoRefills \/ Disable(a) \/ Archive(a) \/ PauseRefill(a)
             \/ \E q \in Quotas[a] : UpdateQuota(a, q)
             \/ \E m \in Modes[a] : UpdateOfferMode(a, m)
      PROVE  RowInv'
  BY <1>4, SameRows
  DEF PauseAllAutoRefills, Disable, Archive, PauseRefill, UpdateQuota, UpdateOfferMode, rowVars
<1>5. ASSUME RowInv, PauseAllAutoRefills PROVE RowInv'
  BY <1>5, SameRows DEF PauseAllAutoRefills, rowVars
<1>6. QED
  BY <1>1, <1>2, <1>3, <1>4, <1>5 DEF LifecycleNext

\* Issuing keeps it.
LEMMA IssueRows == TypeOK /\ RowInv /\ IssueNext => RowInv'
<1>1. ASSUME TypeOK, RowInv, NEW a \in Activity, NEW limit, IssueBatch(a, limit)
      PROVE  RowInv'
  <2>1. \E room : FillAfter(a, {}, room)
    BY <1>1 DEF IssueBatch
  <2>2. QED
    BY <1>1, <2>1, FillAfterRows
<1>2. ASSUME TypeOK, RowInv, NEW i \in Application, IssueManual(i) \/ IssueSpecial(i)
      PROVE  RowInv'
  BY <1>2, InsertRows DEF IssueManual, IssueSpecial
<1>3. QED
  BY <1>1, <1>2 DEF IssueNext

\* It holds before the admission starts.
LEMMA InitRows == Init => RowInv
<1> SUFFICES ASSUME Init PROVE RowInv
  OBVIOUS
<1>1. ApplicationMirrorsOffers
  BY DEF Init, ApplicationMirrorsOffers, Mirrored, RowsOf, OfferId
<1>2. AcceptedOnce /\ NoPendingAfterAccept /\ ElsewhereIsReal
  BY DEF Init, AcceptedOnce, NoPendingAfterAccept, ElsewhereIsReal
<1>3. QED
  BY <1>1, <1>2 DEF RowInv

\* Every step keeps the row invariant.
LEMMA NextRows == TypeOK /\ RowInv /\ [Next]_vars => RowInv'
<1>1. RowInv /\ UNCHANGED vars => RowInv'
  BY SameRows DEF vars, rowVars
<1>2. QED
  BY <1>1, CandidateRows, FollowUpRows, WorkerRows, LifecycleRows, IssueRows
  DEF Next, Steady

-----------------------------------------------------------------------------
\* TypeOK and the row invariant hold in every reachable state.
THEOREM RowsCorrect == Spec => [](TypeOK /\ RowInv)
  BY InitType, NextType, InitRows, NextRows, PTL DEF Spec

\* INV-2: at most one acceptance per candidate over all activities, and
\* candidate.accepted_offer_id is that offer (acceptTx, steps 3 and 4).
THEOREM AcceptedAtMostOnce == Spec => []AcceptedOnce
<1>1. RowInv => AcceptedOnce
  BY DEF RowInv
<1>2. QED
  BY <1>1, RowsCorrect, PTL

\* D1: an acceptance leaves its candidate no PENDING offer anywhere, and no
\* transaction issues one later (acceptTx, step 5; fill, IssueManual, IssueSpecial).
THEOREM LinkageComplete == Spec => []NoPendingAfterAccept
<1>1. RowInv => NoPendingAfterAccept
  BY DEF RowInv
<1>2. QED
  BY <1>1, RowsCorrect, PTL

\* INV-3: every application mirrors its newest offer row and has at most one
\* active row (the guarded updates of offer/service.go, ranking/service.go).
THEOREM RowsMirrored == Spec => []ApplicationMirrorsOffers
<1>1. RowInv => ApplicationMirrorsOffers
  BY DEF RowInv
<1>2. QED
  BY <1>1, RowsCorrect, PTL

\* INELIGIBLE marks and CROSS_ACTIVITY declines are backed by an acceptance in
\* another activity (fill's skip; declineLinkageOfferWithMode).
THEOREM ElsewhereJustified == Spec => []ElsewhereIsReal
<1>1. RowInv => ElsewhereIsReal
  BY DEF RowInv
<1>2. QED
  BY <1>1, RowsCorrect, PTL
=============================================================================
