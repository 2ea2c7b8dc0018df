-------------------------- MODULE Controllers_proofs --------------------------
(***************************************************************************)
(* What runs in threads of its own, and how it is stopped: the job of the C *)
(* interface, for every set of cancellers; the automatic reconstruction,    *)
(* for every number of models, of options and of runs; the extraction       *)
(* pipeline, for every number of images and threads, for queues of every    *)
(* size; the image reader, for every collection of images, every database   *)
(* it may find and all options.  No bound of the runs is used.              *)
(***************************************************************************)
EXTENDS FeatureStages, FeatureMatching_proofs

CONSTANTS Folders, Models, RSizes, Collections, ROptions, RDatabases, RRuns   \* of the reader

VARIABLES images, rwanted, cameras, rigs, irows, reader, rruns

R == INSTANCE ImageReader WITH
        Sizes <- RSizes, Options <- ROptions, Databases <- RDatabases, MaxRuns <- RRuns,
        options <- rwanted, rows <- irows, runs <- rruns

-----------------------------------------------------------------------------
(* The job of the C interface. *)
Deeds == {"validate", "check", "begin", "set", "start", "recheck", "wait", "clear", "map",
          "result", "write", "finish"}
JobStages == {"preparing", "extraction", "matching", "mapping", "export", "finished"}
JobSteps == [do : Deeds, stage : JobStages]

LEMMA Joined ==
    ASSUME NEW s \in Seq(JobSteps), NEW t \in Seq(JobSteps)
    PROVE  /\ s \o t \in Seq(JobSteps) /\ Len(s \o t) = Len(s) + Len(t)
           /\ \A i \in 1 .. Len(s) : (s \o t)[i] = s[i]
           /\ \A i \in 1 .. Len(t) : (s \o t)[Len(s) + i] = t[i]
<1>1. Len(s) \in Nat /\ Len(t) \in Nat
  BY LenProperties
<1>2. s \o t \in Seq(JobSteps) /\ Len(s \o t) = Len(s) + Len(t)
  BY ConcatProperties
<1>3. ASSUME NEW i \in 1 .. Len(s) PROVE (s \o t)[i] = s[i]
  BY <1>1, ConcatProperties
<1>4. ASSUME NEW i \in 1 .. Len(t) PROVE (s \o t)[Len(s) + i] = t[i]
  BY <1>1, ConcatProperties
<1> QED BY <1>2, <1>3, <1>4

LEMMA ThreadSteps ==
    ASSUME NEW s \in JobStages
    PROVE  LET r == J!RunThread(s) IN
           /\ r \in Seq(JobSteps) /\ Len(r) = 8
           /\ r[1] = J!Step("check", s) /\ r[2] = J!Step("set", s) /\ r[3] = J!Step("start", s)
           /\ r[4] = J!Step("recheck", s) /\ r[5] = J!Step("wait", s)
           /\ r[6] = J!Step("check", s) /\ r[7] = J!Step("clear", s) /\ r[8] = J!Step("check", s)
BY DEF J!RunThread, J!Step, JobSteps, Deeds

LEMMA ProgramSteps ==
    LET p == J!Program
        Does(i, do, for) == p[i] = J!Step(do, for) IN
    /\ p \in Seq(JobSteps) /\ Len(p) = 32
    /\ Does(1, "validate", "preparing") /\ Does(2, "check", "preparing")
    /\ Does(3, "begin", "preparing") /\ Does(4, "check", "preparing")
    /\ Does(5, "begin", "extraction") /\ Does(6, "check", "extraction")
    /\ Does(7, "set", "extraction") /\ Does(8, "start", "extraction")
    /\ Does(9, "recheck", "extraction") /\ Does(10, "wait", "extraction")
    /\ Does(11, "check", "extraction") /\ Does(12, "clear", "extraction")
    /\ Does(13, "check", "extraction")
    /\ Does(14, "begin", "matching") /\ Does(15, "check", "matching")
    /\ Does(16, "set", "matching") /\ Does(17, "start", "matching")
    /\ Does(18, "recheck", "matching") /\ Does(19, "wait", "matching")
    /\ Does(20, "check", "matching") /\ Does(21, "clear", "matching")
    /\ Does(22, "check", "matching")
    /\ Does(23, "begin", "mapping") /\ Does(24, "map", "mapping")
    /\ Does(25, "check", "mapping") /\ Does(26, "result", "mapping")
    /\ Does(27, "write", "mapping") /\ Does(28, "begin", "export") /\ Does(29, "check", "export")
    /\ Does(30, "write", "export") /\ Does(31, "check", "export") /\ Does(32, "finish", "finished")
<1> DEFINE a == <<J!Step("validate", "preparing"), J!Step("check", "preparing"),
                  J!Step("begin", "preparing"), J!Step("check", "preparing"),
                  J!Step("begin", "extraction")>>
           b == <<J!Step("begin", "matching")>>
           c == <<J!Step("begin", "mapping"), J!Step("map", "mapping")>>
           d == <<J!Step("write", "mapping"), J!Step("begin", "export"),
                  J!Step("check", "export"), J!Step("write", "export")>>
           f == <<J!Step("finish", "finished")>>
           e == J!RunThread("extraction")
           m == J!RunThread("matching")
           p1 == a \o e
           p2 == p1 \o b
           p3 == p2 \o m
           p4 == p3 \o c
           p5 == p4 \o J!MapResult
           p6 == p5 \o d
           p7 == p6 \o J!LastCheck
           p8 == p7 \o f
<1>0. J!Program = p8
  BY DEF J!Program
<1>1. a \in Seq(JobSteps) /\ Len(a) = 5
  BY DEF J!Step, JobSteps, Deeds, JobStages
<1>2. b \in Seq(JobSteps) /\ Len(b) = 1
  BY DEF J!Step, JobSteps, Deeds, JobStages
<1>3. c \in Seq(JobSteps) /\ Len(c) = 2
  BY DEF J!Step, JobSteps, Deeds, JobStages
<1>4. d \in Seq(JobSteps) /\ Len(d) = 4
  BY DEF J!Step, JobSteps, Deeds, JobStages
<1>5. f \in Seq(JobSteps) /\ Len(f) = 1
  BY DEF J!Step, JobSteps, Deeds, JobStages
<1>6. J!MapResult \in Seq(JobSteps) /\ Len(J!MapResult) = 2
  BY DEF J!Step, JobSteps, Deeds, JobStages, J!MapResult
<1>7. J!LastCheck \in Seq(JobSteps) /\ Len(J!LastCheck) = 1
  BY DEF J!Step, JobSteps, Deeds, JobStages, J!LastCheck
<1>a. /\ a[1] = J!Step("validate", "preparing") /\ a[2] = J!Step("check", "preparing")
      /\ a[3] = J!Step("begin", "preparing") /\ a[4] = J!Step("check", "preparing")
      /\ a[5] = J!Step("begin", "extraction")
      /\ b[1] = J!Step("begin", "matching")
      /\ c[1] = J!Step("begin", "mapping") /\ c[2] = J!Step("map", "mapping")
      /\ d[1] = J!Step("write", "mapping") /\ d[2] = J!Step("begin", "export")
      /\ d[3] = J!Step("check", "export") /\ d[4] = J!Step("write", "export")
      /\ f[1] = J!Step("finish", "finished")
      /\ J!MapResult[1] = J!Step("check", "mapping") /\ J!MapResult[2] = J!Step("result", "mapping")
      /\ J!LastCheck[1] = J!Step("check", "export")
  BY DEF J!MapResult, J!LastCheck
<1>r. /\ e \in Seq(JobSteps) /\ m \in Seq(JobSteps) /\ Len(e) = 8 /\ Len(m) = 8
      /\ e[1] = J!Step("check", "extraction") /\ e[2] = J!Step("set", "extraction")
      /\ e[3] = J!Step("start", "extraction") /\ e[4] = J!Step("recheck", "extraction")
      /\ e[5] = J!Step("wait", "extraction") /\ e[6] = J!Step("check", "extraction")
      /\ e[7] = J!Step("clear", "extraction") /\ e[8] = J!Step("check", "extraction")
      /\ m[1] = J!Step("check", "matching") /\ m[2] = J!Step("set", "matching")
      /\ m[3] = J!Step("start", "matching") /\ m[4] = J!Step("recheck", "matching")
      /\ m[5] = J!Step("wait", "matching") /\ m[6] = J!Step("check", "matching")
      /\ m[7] = J!Step("clear", "matching") /\ m[8] = J!Step("check", "matching")
  BY ThreadSteps DEF JobStages
<1> HIDE DEF a, b, c, d, e, f, m, p1, p2, p3, p4, p5, p6, p7, p8
<1>8s. a \in Seq(JobSteps) /\ e \in Seq(JobSteps) /\ Len(a) = 5 /\ Len(e) = 8
  BY <1>1, <1>r
<1>8j. /\ p1 \in Seq(JobSteps) /\ Len(p1) = Len(a) + Len(e)
       /\ \A i \in 1 .. Len(a) : p1[i] = a[i]
       /\ \A i \in 1 .. Len(e) : p1[Len(a) + i] = e[i]
  BY <1>8s, Joined DEF p1
<1>8t. p1 \in Seq(JobSteps) /\ Len(p1) = 13
  BY <1>8s, <1>8j
<1>8. /\ \A i \in 1 .. 5 : p1[i] = a[i]
     /\ \A i \in 1 .. 8 : p1[5 + i] = e[i]
  BY <1>8s, <1>8j
<1>9s. p1 \in Seq(JobSteps) /\ b \in Seq(JobSteps) /\ Len(p1) = 13 /\ Len(b) = 1
  BY <1>8t, <1>2
<1>9j. /\ p2 \in Seq(JobSteps) /\ Len(p2) = Len(p1) + Len(b)
       /\ \A i \in 1 .. Len(p1) : p2[i] = p1[i]
       /\ \A i \in 1 .. Len(b) : p2[Len(p1) + i] = b[i]
  BY <1>9s, Joined DEF p2
<1>9t. p2 \in Seq(JobSteps) /\ Len(p2) = 14
  BY <1>9s, <1>9j
<1>9. /\ \A i \in 1 .. 13 : p2[i] = p1[i]
     /\ \A i \in 1 .. 1 : p2[13 + i] = b[i]
  BY <1>9s, <1>9j
<1>10s. p2 \in Seq(JobSteps) /\ m \in Seq(JobSteps) /\ Len(p2) = 14 /\ Len(m) = 8
  BY <1>9t, <1>r
<1>10j. /\ p3 \in Seq(JobSteps) /\ Len(p3) = Len(p2) + Len(m)
        /\ \A i \in 1 .. Len(p2) : p3[i] = p2[i]
        /\ \A i \in 1 .. Len(m) : p3[Len(p2) + i] = m[i]
  BY <1>10s, Joined DEF p3
<1>10t. p3 \in Seq(JobSteps) /\ Len(p3) = 22
  BY <1>10s, <1>10j
<1>10. /\ \A i \in 1 .. 14 : p3[i] = p2[i]
     /\ \A i \in 1 .. 8 : p3[14 + i] = m[i]
  BY <1>10s, <1>10j
<1>11s. p3 \in Seq(JobSteps) /\ c \in Seq(JobSteps) /\ Len(p3) = 22 /\ Len(c) = 2
  BY <1>10t, <1>3
<1>11j. /\ p4 \in Seq(JobSteps) /\ Len(p4) = Len(p3) + Len(c)
        /\ \A i \in 1 .. Len(p3) : p4[i] = p3[i]
        /\ \A i \in 1 .. Len(c) : p4[Len(p3) + i] = c[i]
  BY <1>11s, Joined DEF p4
<1>11t. p4 \in Seq(JobSteps) /\ Len(p4) = 24
  BY <1>11s, <1>11j
<1>11. /\ \A i \in 1 .. 22 : p4[i] = p3[i]
     /\ \A i \in 1 .. 2 : p4[22 + i] = c[i]
  BY <1>11s, <1>11j
<1>12s. p4 \in Seq(JobSteps) /\ J!MapResult \in Seq(JobSteps) /\ Len(p4) = 24 /\ Len(J!MapResult) = 2
  BY <1>11t, <1>6
<1>12j. /\ p5 \in Seq(JobSteps) /\ Len(p5) = Len(p4) + Len(J!MapResult)
        /\ \A i \in 1 .. Len(p4) : p5[i] = p4[i]
        /\ \A i \in 1 .. Len(J!MapResult) : p5[Len(p4) + i] = J!MapResult[i]
  BY <1>12s, Joined DEF p5
<1>12t. p5 \in Seq(JobSteps) /\ Len(p5) = 26
  BY <1>12s, <1>12j
<1>12. /\ \A i \in 1 .. 24 : p5[i] = p4[i]
     /\ \A i \in 1 .. 2 : p5[24 + i] = J!MapResult[i]
  BY <1>12s, <1>12j
<1>13s. p5 \in Seq(JobSteps) /\ d \in Seq(JobSteps) /\ Len(p5) = 26 /\ Len(d) = 4
  BY <1>12t, <1>4
<1>13j. /\ p6 \in Seq(JobSteps) /\ Len(p6) = Len(p5) + Len(d)
        /\ \A i \in 1 .. Len(p5) : p6[i] = p5[i]
        /\ \A i \in 1 .. Len(d) : p6[Len(p5) + i] = d[i]
  BY <1>13s, Joined DEF p6
<1>13t. p6 \in Seq(JobSteps) /\ Len(p6) = 30
  BY <1>13s, <1>13j
<1>13. /\ \A i \in 1 .. 26 : p6[i] = p5[i]
     /\ \A i \in 1 .. 4 : p6[26 + i] = d[i]
  BY <1>13s, <1>13j
<1>14s. p6 \in Seq(JobSteps) /\ J!LastCheck \in Seq(JobSteps) /\ Len(p6) = 30 /\ Len(J!LastCheck) = 1
  BY <1>13t, <1>7
<1>14j. /\ p7 \in Seq(JobSteps) /\ Len(p7) = Len(p6) + Len(J!LastCheck)
        /\ \A i \in 1 .. Len(p6) : p7[i] = p6[i]
        /\ \A i \in 1 .. Len(J!LastCheck) : p7[Len(p6) + i] = J!LastCheck[i]
  BY <1>14s, Joined DEF p7
<1>14t. p7 \in Seq(JobSteps) /\ Len(p7) = 31
  BY <1>14s, <1>14j
<1>14. /\ \A i \in 1 .. 30 : p7[i] = p6[i]
     /\ \A i \in 1 .. 1 : p7[30 + i] = J!LastCheck[i]
  BY <1>14s, <1>14j
<1>15s. p7 \in Seq(JobSteps) /\ f \in Seq(JobSteps) /\ Len(p7) = 31 /\ Len(f) = 1
  BY <1>14t, <1>5
<1>15j. /\ p8 \in Seq(JobSteps) /\ Len(p8) = Len(p7) + Len(f)
        /\ \A i \in 1 .. Len(p7) : p8[i] = p7[i]
        /\ \A i \in 1 .. Len(f) : p8[Len(p7) + i] = f[i]
  BY <1>15s, Joined DEF p8
<1>15t. p8 \in Seq(JobSteps) /\ Len(p8) = 32
  BY <1>15s, <1>15j
<1>15. /\ \A i \in 1 .. 31 : p8[i] = p7[i]
     /\ \A i \in 1 .. 1 : p8[31 + i] = f[i]
  BY <1>15s, <1>15j
<1>16. \A i \in 1 .. 5 : p8[0 + i] = a[i]
  BY <1>8, <1>9, <1>10, <1>11, <1>12, <1>13, <1>14, <1>15
<1>17. \A i \in 1 .. 8 : p8[5 + i] = e[i]
  BY <1>8, <1>9, <1>10, <1>11, <1>12, <1>13, <1>14, <1>15
<1>18. \A i \in 1 .. 1 : p8[13 + i] = b[i]
  BY <1>9, <1>10, <1>11, <1>12, <1>13, <1>14, <1>15
<1>19. \A i \in 1 .. 8 : p8[14 + i] = m[i]
  BY <1>10, <1>11, <1>12, <1>13, <1>14, <1>15
<1>20. \A i \in 1 .. 2 : p8[22 + i] = c[i]
  BY <1>11, <1>12, <1>13, <1>14, <1>15
<1>21. \A i \in 1 .. 2 : p8[24 + i] = J!MapResult[i]
  BY <1>12, <1>13, <1>14, <1>15
<1>22. \A i \in 1 .. 4 : p8[26 + i] = d[i]
  BY <1>13, <1>14, <1>15
<1>23. \A i \in 1 .. 1 : p8[30 + i] = J!LastCheck[i]
  BY <1>14, <1>15
<1>24. \A i \in 1 .. 1 : p8[31 + i] = f[i]
  BY <1>15
<1>25. /\ p8[1] = J!Step("validate", "preparing")
      /\ p8[2] = J!Step("check", "preparing")
      /\ p8[3] = J!Step("begin", "preparing")
      /\ p8[4] = J!Step("check", "preparing")
      /\ p8[5] = J!Step("begin", "extraction")
  BY <1>16, <1>a
<1>26. /\ p8[6] = J!Step("check", "extraction")
      /\ p8[7] = J!Step("set", "extraction")
      /\ p8[8] = J!Step("start", "extraction")
      /\ p8[9] = J!Step("recheck", "extraction")
      /\ p8[10] = J!Step("wait", "extraction")
      /\ p8[11] = J!Step("check", "extraction")
      /\ p8[12] = J!Step("clear", "extraction")
      /\ p8[13] = J!Step("check", "extraction")
  BY <1>17, <1>r
<1>27. /\ p8[14] = J!Step("begin", "matching")
  BY <1>18, <1>a
<1>28. /\ p8[15] = J!Step("check", "matching")
      /\ p8[16] = J!Step("set", "matching")
      /\ p8[17] = J!Step("start", "matching")
      /\ p8[18] = J!Step("recheck", "matching")
      /\ p8[19] = J!Step("wait", "matching")
      /\ p8[20] = J!Step("check", "matching")
      /\ p8[21] = J!Step("clear", "matching")
      /\ p8[22] = J!Step("check", "matching")
  BY <1>19, <1>r
<1>29. /\ p8[23] = J!Step("begin", "mapping")
      /\ p8[24] = J!Step("map", "mapping")
  BY <1>20, <1>a
<1>30. /\ p8[25] = J!Step("check", "mapping")
      /\ p8[26] = J!Step("result", "mapping")
  BY <1>21, <1>a
<1>31. /\ p8[27] = J!Step("write", "mapping")
      /\ p8[28] = J!Step("begin", "export")
      /\ p8[29] = J!Step("check", "export")
      /\ p8[30] = J!Step("write", "export")
  BY <1>22, <1>a
<1>32. /\ p8[31] = J!Step("check", "export")
  BY <1>23, <1>a
<1>33. /\ p8[32] = J!Step("finish", "finished")
  BY <1>24, <1>a
<1> QED
  BY <1>0, <1>15t, <1>25, <1>26, <1>27, <1>28, <1>29, <1>30, <1>31, <1>32, <1>33

LEMMA Places ==
    /\ DOMAIN J!Program = 1 .. 32 /\ Len(J!Program) = 32
    /\ J!Program[25].do = "check" /\ J!Program[31].do = "check"
    /\ \A i \in 1 .. 32 :
          /\ J!Program[i].do = "finish" <=> i = 32
          /\ J!Program[i].do = "map" <=> i = 24
          /\ J!Program[i].do = "result" => i = 26
          /\ J!Program[i].do \in {"set", "start", "recheck", "wait"} =>
                J!Program[i].stage \in J!Stages
          /\ J!Program[i].do = "begin" /\ J!Program[i].stage = "export" => i = 28
<1> USE DEF J!Step
<1>1. DOMAIN J!Program = 1 .. 32 /\ Len(J!Program) = 32
  BY ProgramSteps, LenProperties
<1>2. J!Program[25].do = "check" /\ J!Program[31].do = "check"
  BY ProgramSteps
<1>3. ASSUME NEW i \in 1 .. 32
      PROVE  /\ J!Program[i].do = "finish" <=> i = 32
             /\ J!Program[i].do = "map" <=> i = 24
             /\ J!Program[i].do = "result" => i = 26
             /\ J!Program[i].do \in {"set", "start", "recheck", "wait"} =>
                   J!Program[i].stage \in J!Stages
             /\ J!Program[i].do = "begin" /\ J!Program[i].stage = "export" => i = 28
  <2>1. CASE i \in 1 .. 8
    <3>1. i \in {1, 2, 3, 4, 5, 6, 7, 8}
      BY <2>1
    <3>2. /\ J!Program[1].do = "validate" /\ J!Program[1].stage = "preparing"
          /\ J!Program[2].do = "check" /\ J!Program[2].stage = "preparing"
          /\ J!Program[3].do = "begin" /\ J!Program[3].stage = "preparing"
          /\ J!Program[4].do = "check" /\ J!Program[4].stage = "preparing"
          /\ J!Program[5].do = "begin" /\ J!Program[5].stage = "extraction"
          /\ J!Program[6].do = "check" /\ J!Program[6].stage = "extraction"
          /\ J!Program[7].do = "set" /\ J!Program[7].stage = "extraction"
          /\ J!Program[8].do = "start" /\ J!Program[8].stage = "extraction"
      BY ProgramSteps
    <3> QED BY <3>1, <3>2 DEF J!Stages
  <2>2. CASE i \in 9 .. 16
    <3>1. i \in {9, 10, 11, 12, 13, 14, 15, 16}
      BY <2>2
    <3>2. /\ J!Program[9].do = "recheck" /\ J!Program[9].stage = "extraction"
          /\ J!Program[10].do = "wait" /\ J!Program[10].stage = "extraction"
          /\ J!Program[11].do = "check" /\ J!Program[11].stage = "extraction"
          /\ J!Program[12].do = "clear" /\ J!Program[12].stage = "extraction"
          /\ J!Program[13].do = "check" /\ J!Program[13].stage = "extraction"
          /\ J!Program[14].do = "begin" /\ J!Program[14].stage = "matching"
          /\ J!Program[15].do = "check" /\ J!Program[15].stage = "matching"
          /\ J!Program[16].do = "set" /\ J!Program[16].stage = "matching"
      BY ProgramSteps
    <3> QED BY <3>1, <3>2 DEF J!Stages
  <2>3. CASE i \in 17 .. 24
    <3>1. i \in {17, 18, 19, 20, 21, 22, 23, 24}
      BY <2>3
    <3>2. /\ J!Program[17].do = "start" /\ J!Program[17].stage = "matching"
          /\ J!Program[18].do = "recheck" /\ J!Program[18].stage = "matching"
          /\ J!Program[19].do = "wait" /\ J!Program[19].stage = "matching"
          /\ J!Program[20].do = "check" /\ J!Program[20].stage = "matching"
          /\ J!Program[21].do = "clear" /\ J!Program[21].stage = "matching"
          /\ J!Program[22].do = "check" /\ J!Program[22].stage = "matching"
          /\ J!Program[23].do = "begin" /\ J!Program[23].stage = "mapping"
          /\ J!Program[24].do = "map" /\ J!Program[24].stage = "mapping"
      BY ProgramSteps
    <3> QED BY <3>1, <3>2 DEF J!Stages
  <2>4. CASE i \in 25 .. 32
    <3>1. i \in {25, 26, 27, 28, 29, 30, 31, 32}
      BY <2>4
    <3>2. /\ J!Program[25].do = "check" /\ J!Program[25].stage = "mapping"
          /\ J!Program[26].do = "result" /\ J!Program[26].stage = "mapping"
          /\ J!Program[27].do = "write" /\ J!Program[27].stage = "mapping"
          /\ J!Program[28].do = "begin" /\ J!Program[28].stage = "export"
          /\ J!Program[29].do = "check" /\ J!Program[29].stage = "export"
          /\ J!Program[30].do = "write" /\ J!Program[30].stage = "export"
          /\ J!Program[31].do = "check" /\ J!Program[31].stage = "export"
          /\ J!Program[32].do = "finish" /\ J!Program[32].stage = "finished"
      BY ProgramSteps
    <3> QED BY <3>1, <3>2 DEF J!Stages
  <2> QED BY <2>1, <2>2, <2>3, <2>4
<1> QED BY <1>1, <1>2, <1>3

LEMMA PlaceOf == J!Place("finish") = 32 /\ J!Place("map") = 24
<1>1. \A i \in DOMAIN J!Program :
         /\ J!Program[i].do = "finish" <=> i = 32
         /\ J!Program[i].do = "map" <=> i = 24
  BY Places
<1> QED BY <1>1, Places DEF J!Place

(* Once it has ended, the job has said how, and not before.  A request that   *)
(* came before this place was not seen by any check in between, unless the    *)
(* export and the check at its beginning were skipped.                       *)
JobTypes ==
    /\ requested \in BOOLEAN /\ jactive \in J!Stages \cup {"none"}
    /\ jthread \in [J!Stages -> {"none", "new", "running", "finished"}]
    /\ jstopped \in [J!Stages -> BOOLEAN]
    /\ jpc \in 1 .. 32 /\ jasked \in 0 .. 32
    /\ exit \in {"none", "cancelled", "invalid", "failed", "done"}
    /\ status \in {"running", "ok", "cancelled", "invalid_argument", "runtime_error"}
    /\ canceller \in [Cancellers -> {"idle", "stop"}]
    /\ owner \in {"idle", "wait", "cancel", "stop", "join", "released"}

JobInv ==
    /\ JobTypes /\ J!OneTerminalEvent
    /\ exit # "done" => status = "running" /\ events = <<>>
    /\ requested <=> jasked # 0
    /\ requested /\ exit = "none" =>
          /\ jasked <= jpc
          /\ \A i \in jasked .. jpc - 1 : J!Program[i].do = "check" => i = 29

LEMMA JobInit == J!Init => JobInv
<1> SUFFICES ASSUME J!Init PROVE JobInv
  OBVIOUS
<1>1. JobTypes
  <2>1. /\ jthread \in [J!Stages -> {"none", "new", "running", "finished"}]
        /\ jstopped \in [J!Stages -> BOOLEAN] /\ canceller \in [Cancellers -> {"idle", "stop"}]
    BY DEF J!Init
  <2>2. requested = FALSE /\ jactive = "none" /\ jasked = 0 /\ jpc = 1 /\ exit = "none"
        /\ status = "running" /\ owner = "idle"
    BY DEF J!Init
  <2>3. jpc \in 1 .. 32 /\ jasked \in 0 .. 32
    BY <2>2
  <2> HIDE DEF J!Init
  <2> QED BY <2>1, <2>2, <2>3, Zenon DEF JobTypes
<1>2. J!OneTerminalEvent
  BY DEF J!Init, J!OneTerminalEvent
<1> QED BY <1>1, <1>2 DEF J!Init, JobInv

LEMMA WorkKeeps == ASSUME JobInv, J!Work \/ J!Map PROVE JobInv'
<1> USE DEF J!Running, J!Stage
<1> DEFINE Asked == requested /\ exit = "none" =>
                      /\ jasked <= jpc
                      /\ \A i \in jasked .. jpc - 1 : J!Program[i].do = "check" => i = 29
<1>0. /\ jpc \in 1 .. 32 /\ JobTypes
      /\ jpc = 32 \/ J!Program[jpc].do # "finish"
  BY Places DEF JobInv, JobTypes
<1>1. ASSUME exit = "none", ~(J!Program[jpc].do = "check" /\ requested), J!Continue,
             J!Program[jpc].do # "finish", UNCHANGED <<requested, jasked, canceller, owner>>,
             jactive' \in J!Stages \cup {"none"},
             jthread' \in [J!Stages -> {"none", "new", "running", "finished"}],
             jstopped' \in [J!Stages -> BOOLEAN]
      PROVE  JobInv'
  <2>1. jpc' = jpc + 1 /\ jpc' \in 1 .. 32 /\ UNCHANGED <<exit, status, events>>
    BY <1>0, <1>1, Places DEF J!Continue, J!Skip
  <2>2. Asked'
    BY <1>0, <1>1, <2>1 DEF JobInv, JobTypes
  <2> QED BY <1>0, <1>1, <2>1, <2>2, Places DEF JobInv, JobTypes, J!OneTerminalEvent
<1>2. ASSUME NEW how \in {"cancelled", "invalid", "failed"}, exit = "none", J!Throw(how),
             UNCHANGED <<requested, jasked, canceller, owner, jactive, jstopped>>,
             jthread' \in [J!Stages -> {"none", "new", "running", "finished"}]
      PROVE  JobInv'
  BY <1>0, <1>2 DEF J!Throw, JobInv, JobTypes, J!OneTerminalEvent
<1>3. /\ jactive \in J!Stages \cup {"none"} /\ jstopped \in [J!Stages -> BOOLEAN]
      /\ jthread \in [J!Stages -> {"none", "new", "running", "finished"}]
      /\ \A s : (jstopped' = IF s \in J!Stages THEN [jstopped EXCEPT ![s] = TRUE] ELSE jstopped)
                  => jstopped' \in [J!Stages -> BOOLEAN]
  BY <1>0 DEF JobTypes
<1> USE DEF J!cancellation, J!threads, J!clients
<1>4. CASE J!Validate
  BY <1>1, <1>2, <1>3, <1>4 DEF J!Validate
<1>5. CASE J!Check
  BY <1>1, <1>2, <1>3, <1>5 DEF J!Check
<1>6. CASE J!Begin
  <2>1. jthread' \in [J!Stages -> {"none", "new", "running", "finished"}]
    BY <1>3, <1>6 DEF J!Begin
  <2> QED BY <1>1, <1>2, <1>3, <1>6, <2>1 DEF J!Begin
<1>7. CASE J!SkipExport
  <2>1. jpc = 28 /\ jpc' = 31 /\ exit = "none" /\ UNCHANGED <<exit, status, events>>
    BY <1>0, <1>7, Places DEF J!SkipExport, J!Skip
  <2>2. Asked'
    <3> SUFFICES ASSUME requested, NEW i \in jasked .. 30, J!Program[i].do = "check"
                 PROVE  i = 29
      BY <1>0, <1>7, <2>1 DEF J!SkipExport, JobInv, JobTypes
    <3>0. jasked \in 0 .. 32 /\ jasked # 0 /\ jasked <= 28
      BY <2>1 DEF JobInv, JobTypes
    <3>1. jasked \in 1 .. 28
      BY <3>0
    <3>2. i \in jasked .. 27 \/ i \in {28, 29, 30}
      BY <3>1
    <3>3. J!Program[28].do # "check" /\ J!Program[30].do # "check"
      BY ProgramSteps DEF J!Step
    <3> QED BY <2>1, <3>2, <3>3 DEF JobInv
  <2>3. JobTypes'
    BY <1>0, <1>7, <2>1, Places DEF J!SkipExport, JobTypes
  <2> QED BY <1>7, <2>1, <2>2, <2>3 DEF J!SkipExport, JobInv, J!OneTerminalEvent
<1>8. CASE J!SetActive
  <2>1. jactive' \in J!Stages
    BY <1>0, <1>8, Places DEF J!SetActive
  <2> QED BY <1>1, <1>3, <1>8, <2>1 DEF J!SetActive, J!StopThread
<1>9. CASE J!StartThread
  BY <1>1, <1>3, <1>9 DEF J!StartThread
<1>10. CASE J!Recheck
  BY <1>1, <1>3, <1>10 DEF J!Recheck, J!StopThread
<1>11. CASE J!WaitThread
  BY <1>1, <1>3, <1>11 DEF J!WaitThread
<1>12. CASE J!ClearActive
  BY <1>1, <1>3, <1>12 DEF J!ClearActive
<1>13. CASE J!Result \/ J!Write
  BY <1>1, <1>2, <1>3, <1>13 DEF J!Result, J!Write
<1>14. CASE J!Map
  BY <1>1, <1>3, <1>14 DEF J!Map
<1>15. CASE J!Finish
  <2>1. /\ events' = <<"finished">> /\ status' = "ok" /\ exit' = "done"
        /\ UNCHANGED <<jpc, requested, jactive, jasked, jstopped, canceller, owner>>
    BY <1>15 DEF J!Finish, JobInv
  <2>2. JobTypes'
    BY <1>0, <1>15, <2>1 DEF J!Finish, JobTypes
  <2> QED BY <2>1, <2>2 DEF JobInv, J!OneTerminalEvent
<1>16. CASE J!Catch
  <2>1. /\ events' = <<IF exit = "cancelled" THEN "cancelled" ELSE "failed">>
        /\ status' = (CASE exit = "cancelled" -> "cancelled"
                        [] exit = "invalid" -> "invalid_argument"
                        [] OTHER -> "runtime_error")
        /\ exit' = "done" /\ jactive' = "none"
        /\ UNCHANGED <<jpc, requested, jasked, jstopped, canceller, owner>>
    <3>1. exit \in {"cancelled", "invalid", "failed"} /\ events = <<>>
      BY <1>16 DEF J!Catch, J!CaughtAs, JobInv
    <3> QED BY <1>16, <3>1 DEF J!Catch, J!CaughtAs
  <2>2. JobTypes'
    BY <1>0, <1>16, <2>1 DEF J!Catch, JobTypes
  <2> QED BY <1>16, <2>1, <2>2 DEF JobInv, J!OneTerminalEvent
<1> QED BY <1>4, <1>5, <1>6, <1>7, <1>8, <1>9, <1>10, <1>11, <1>12, <1>13, <1>14, <1>15, <1>16
        DEF J!Work

LEMMA ClientsKeep ==
    ASSUME JobInv, UNCHANGED J!worker,
           \/ UNCHANGED <<requested, jasked>>
           \/ J!Request,
           jactive' = jactive, jthread' \in [J!Stages -> {"none", "new", "running", "finished"}],
           jstopped' \in [J!Stages -> BOOLEAN], canceller' \in [Cancellers -> {"idle", "stop"}],
           owner' \in {"idle", "wait", "cancel", "stop", "join", "released"}
    PROVE  JobInv'
<1>1. jpc \in 1 .. 32 /\ Len(J!Program) = 32 /\ JobTypes
  BY Places DEF JobInv, JobTypes
<1>2. CASE UNCHANGED <<requested, jasked>>
  BY <1>1, <1>2 DEF JobInv, JobTypes, J!OneTerminalEvent, J!worker
<1>3. CASE J!Request
  <2>1. requested' = TRUE /\ jasked' \in {jasked, jpc, 32} /\ (jasked' = jasked => requested \/ jasked' # 0)
    BY <1>1, <1>3 DEF J!Request, JobTypes
  <2>2. jasked' \in 0 .. 32 /\ jasked' # 0
    <3>1. jasked \in 0 .. 32 /\ jpc \in 1 .. 32 /\ (requested => jasked # 0)
      BY DEF JobInv, JobTypes
    <3> QED BY <2>1, <3>1
  <2>3. exit = "none" =>
          /\ jasked' <= jpc
          /\ \A i \in jasked' .. jpc - 1 : J!Program[i].do = "check" => i = 29
    <3>1. CASE requested
      BY <1>1, <1>3, <3>1 DEF J!Request, JobInv
    <3>2. CASE ~requested /\ exit = "none"
      <4>1. jasked' = jpc
        BY <1>3, <3>2 DEF J!Request
      <4> QED BY <1>1, <4>1 DEF JobTypes
    <3> QED BY <3>1, <3>2, <1>1 DEF JobTypes
  <2> QED BY <1>1, <2>1, <2>2, <2>3 DEF JobInv, JobTypes, J!OneTerminalEvent, J!worker
<1> QED BY <1>2, <1>3

LEMMA JobInductive == ASSUME JobInv, [J!Next]_(J!vars) PROVE JobInv'
<1> USE DEF J!worker, J!cancellation, J!threads, J!clients
<1>0. /\ jactive \in J!Stages \cup {"none"} /\ jstopped \in [J!Stages -> BOOLEAN]
      /\ jthread \in [J!Stages -> {"none", "new", "running", "finished"}]
      /\ canceller \in [Cancellers -> {"idle", "stop"}]
      /\ owner \in {"idle", "wait", "cancel", "stop", "join", "released"}
  BY DEF JobInv, JobTypes
<1>1. CASE J!Work \/ J!Map
  BY <1>1, WorkKeeps
<1>2. ASSUME NEW s \in J!Stages, J!ThreadEnds(s) PROVE JobInv'
  BY <1>0, <1>2, ClientsKeep DEF J!ThreadEnds
<1>3. ASSUME NEW c \in Cancellers, J!Cancel(c) PROVE JobInv'
  BY <1>0, <1>3, ClientsKeep DEF J!Cancel, J!Request
<1>4. ASSUME NEW c \in Cancellers, J!CancelStops(c) PROVE JobInv'
  BY <1>0, <1>4, ClientsKeep DEF J!CancelStops, J!StopActive, J!StopThread
<1>5. CASE J!Wait \/ J!WaitReturns \/ J!ReleaseReturns
  BY <1>0, <1>5, ClientsKeep DEF J!Wait, J!WaitReturns, J!ReleaseReturns, J!Owner
<1>6. CASE J!Release
  BY <1>0, <1>6, ClientsKeep DEF J!Release, J!Owner, J!Request
<1>7. CASE J!ReleaseStops
  BY <1>0, <1>7, ClientsKeep DEF J!ReleaseStops, J!Owner, J!StopActive, J!StopThread
<1>8. CASE UNCHANGED J!vars
  BY <1>0, <1>8, ClientsKeep DEF J!vars
<1> QED BY <1>1, <1>2, <1>3, <1>4, <1>5, <1>6, <1>7, <1>8 DEF J!Next, J!OwnerGoesOn

LEMMA JobTypesMean == JobInv => J!TypeOK
<1> SUFFICES ASSUME JobInv PROVE J!TypeOK
  OBVIOUS
<1>1. events \in {<<>>, <<"finished">>, <<"cancelled">>, <<"failed">>}
  BY DEF JobInv, J!OneTerminalEvent
<1>2. ASSUME NEW x \in {"finished", "failed", "cancelled"}
      PROVE  <<x>> \in Seq({"finished", "failed", "cancelled"}) /\ Len(<<x>>) = 1
  OBVIOUS
<1>4. <<>> \in Seq({"finished", "failed", "cancelled"}) /\ Len(<<>>) = 0
  OBVIOUS
<1>5. events \in Seq({"finished", "failed", "cancelled"}) /\ Len(events) <= 1
  <2>1. CASE events = <<>>
    BY <1>4, <2>1
  <2>2. ASSUME NEW x \in {"finished", "failed", "cancelled"}, events = <<x>>
        PROVE  events \in Seq({"finished", "failed", "cancelled"}) /\ Len(events) <= 1
    BY <1>2, <2>2
  <2> QED BY <1>1, <2>1, <2>2, Zenon
<1>3. JobTypes
  BY DEF JobInv
<1> QED BY <1>3, <1>5, Places DEF JobTypes, J!TypeOK

LEMMA JobInvariance == J!Spec => []JobInv
<1>1. JobInv /\ [J!Next]_(J!vars) => JobInv'
  BY JobInductive
<1> QED BY JobInit, <1>1, PTL DEF J!Spec

(* The state of a job has its types, whatever its threads and its clients do  *)
(* (colmapkit/colmapkit.cc).                                                  *)
THEOREM JobTypeCorrect == J!Spec => []J!TypeOK
BY JobInvariance, JobTypesMean, PTL

(* The job of the C interface ends with one terminal event, which says what   *)
(* its status says (colmapkit/colmapkit.cc).                                  *)
THEOREM JobEndsOnce == J!Spec => []J!OneTerminalEvent
<1>1. JobInv => J!OneTerminalEvent
  BY DEF JobInv
<1> QED BY JobInvariance, <1>1, PTL

(* A cancelled job is neither OK nor failed: whenever the request comes, the  *)
(* worker passes a check of it before it writes its status, and before it     *)
(* takes a mapper without a model for a failure (colmapkit/colmapkit.cc).     *)
THEOREM CancelledIsToldSo == J!Spec => CancelIsNotFailure
<1> DEFINE Told == /\ status' # status /\ status' = "ok" => jasked = 0 \/ jasked >= J!Place("finish")
                   /\ J!Result /\ exit' = "failed" => jasked = 0 \/ jasked > J!Place("map")
<1>1. ASSUME JobInv, [J!Next]_(J!vars) PROVE [Told]_(J!vars)
  <2>1. ASSUME exit = "none", jpc = 32 PROVE jasked = 0 \/ jasked = 32
    <3> SUFFICES ASSUME jasked # 0 PROVE jasked = 32
      OBVIOUS
    <3>1. jasked \in 1 .. 32 /\ \A i \in jasked .. 31 : J!Program[i].do = "check" => i = 29
      BY <1>1, <2>1, Places DEF JobInv, JobTypes
    <3> QED BY <3>1, Places
  <2>2. ASSUME exit = "none", jpc = 26 PROVE jasked = 0 \/ jasked = 26
    <3> SUFFICES ASSUME jasked # 0 PROVE jasked = 26
      OBVIOUS
    <3>1. jasked \in 1 .. 26 /\ \A i \in jasked .. 25 : J!Program[i].do = "check" => i = 29
      BY <1>1, <2>2 DEF JobInv, JobTypes
    <3> QED BY <3>1, Places
  <2>3. ASSUME status' # status, status' = "ok" PROVE jasked = 0 \/ jasked >= J!Place("finish")
    <3>1. J!Finish
      <4>1. ~J!Catch
        BY <2>3 DEF J!Catch, J!CaughtAs
      <4> QED
        BY <1>1, <2>3, <4>1 DEF J!Next, J!vars, J!worker, J!Work, J!Map, J!Validate, J!Check,
           J!Begin, J!SkipExport, J!SetActive, J!StartThread, J!Recheck, J!WaitThread,
           J!ClearActive, J!Result, J!Write, J!Continue, J!Skip, J!Throw, J!ThreadEnds, J!Cancel,
           J!CancelStops, J!Request, J!StopActive, J!Wait, J!Release, J!OwnerGoesOn, J!WaitReturns,
           J!ReleaseStops, J!ReleaseReturns
    <3>2. exit = "none" /\ jpc = 32
      BY <1>1, <3>1, Places DEF J!Finish, J!Running, JobInv, JobTypes
    <3> QED BY <2>1, <3>2, PlaceOf
  <2>4. ASSUME J!Result, exit' = "failed" PROVE jasked = 0 \/ jasked > J!Place("map")
    <3>1. exit = "none" /\ jpc = 26
      BY <1>1, <2>4, Places DEF J!Result, J!Running, JobInv, JobTypes
    <3> QED BY <2>2, <3>1, PlaceOf
  <2> QED BY <2>3, <2>4
<1> QED BY JobInvariance, <1>1, PTL DEF J!Spec, CancelIsNotFailure, J!CancelIsNotFailure

-----------------------------------------------------------------------------
(* The automatic reconstruction. *)
(* A stage is under way and may still come to its end: one, since threads run *)
(* only while Run() waits for them.                                          *)
UnderWay ==
    IF at \in {"set", "start", "make"} \/ (at = "wait" /\ child[stage] = "running")
    THEN 1 ELSE 0

AutoInv ==
    /\ child \in [A!Threads -> {"new", "running", "finished", "destroyed"}]
    /\ \A s \in A!Threads : child[s] = "running" => at = "wait" /\ stage = s
    /\ at \in {"set", "start", "wait", "reset", "clear"} => stage \in A!Threads
    /\ stage \in A!Stages /\ astopped \in BOOLEAN
    /\ stopper = "returned" <=> astopped
    /\ IF stopper = "returned" THEN late + UnderWay <= 1 ELSE late = 0
    /\ late \in Nat /\ aactive \in A!Threads \cup {"none"}

LEMMA AutoInit == A!Init => AutoInv
<1> SUFFICES ASSUME A!Init PROVE AutoInv
  OBVIOUS
<1>1. child \in [A!Threads -> {"new", "running", "finished", "destroyed"}]
      /\ \A s \in A!Threads : child[s] = "new"
  BY DEF A!Init, A!Begun
<1>2. /\ at = "check" /\ stage = "extraction" /\ stage \in A!Stages /\ aactive = "none"
      /\ astopped = FALSE /\ stopper = "idle" /\ late = 0
  BY DEF A!Init, A!Begun, A!Stages, A!Threads
<1> HIDE DEF A!Init
<1> QED BY <1>1, <1>2 DEF AutoInv, UnderWay

LEMMA AutoInductive == ASSUME AutoInv, [A!Next]_(A!vars) PROVE AutoInv'
<1> USE DEF AutoInv, UnderWay, A!Checks, A!Passes, A!At, A!Goto, A!NextStage, A!Making, A!disk, A!threads,
     A!stopping, A!history, A!place, A!Late, A!StopSeen
<1>s. A!Stages = {"extraction", "matching", "sparse", "images", "maps", "fused", "mesh"}
  BY DEF A!Stages, A!Threads, A!Dense
<1>t. A!Threads = {"extraction", "matching"}
  BY DEF A!Threads
<1>n. A!After[stage] \in A!Stages
  BY <1>s DEF A!After
<1>1. CASE A!Return \/ A!NextModel \/ A!SkipStage \/ A!EnterStage
  BY <1>1, <1>n DEF A!Return, A!NextModel, A!SkipStage, A!EnterStage
<1>2. CASE A!SetActive
  BY <1>2 DEF A!SetActive
<1>3. CASE A!StartThread
  BY <1>3 DEF A!StartThread
<1>4. CASE A!WaitThread
  BY <1>4 DEF A!WaitThread
<1>5. CASE A!ResetThread
  BY <1>5 DEF A!ResetThread
<1>6. CASE A!ClearActive
  BY <1>6, <1>n DEF A!ClearActive
<1>7. CASE A!Read
  BY <1>7, <1>n DEF A!Read
<1>8. CASE A!Map
  BY <1>8, <1>n DEF A!Map
<1>9. CASE A!Write
  BY <1>9, <1>n DEF A!Write
<1>10. CASE A!Make
  BY <1>10, <1>n DEF A!Make
<1>11. ASSUME NEW s \in A!Threads, A!ThreadEnds(s) PROVE AutoInv'
  BY <1>11 DEF A!ThreadEnds
<1>12. CASE A!StopReads \/ A!StopThread
  BY <1>t, <1>12 DEF A!StopReads, A!StopThread
<1>15. CASE A!StopSets
  BY <1>t, <1>15 DEF A!StopSets
<1>13. CASE A!Rerun \/ A!Kill
  <2>1. /\ child' = [s \in A!Threads |-> "new"]
        /\ at' = "check" /\ stage' = "extraction" /\ aactive' = "none"
        /\ astopped' = FALSE /\ stopper' = "idle" /\ late' = 0
    BY <1>13 DEF A!Rerun, A!Kill, A!Begin
  <2>2. child' \in [A!Threads -> {"new", "running", "finished", "destroyed"}]
        /\ \A s \in A!Threads : child'[s] = "new"
    BY <2>1
  <2> QED BY <2>1, <2>2, <1>s
<1>14. CASE UNCHANGED A!vars
  BY <1>14 DEF A!vars
<1> QED BY <1>1, <1>2, <1>3, <1>4, <1>5, <1>6, <1>7, <1>8, <1>9, <1>10, <1>11, <1>12, <1>13, <1>14, <1>15
   DEF A!Next, A!Run

LEMMA AutoInvariance == A!Spec => []AutoInv
<1>1. AutoInv /\ [A!Next]_(A!vars) => AutoInv'
  BY AutoInductive
<1> QED BY AutoInit, <1>1, PTL DEF A!Spec

(* After Stop() of an automatic reconstruction has returned, one stage may    *)
(* come to its end, and no other (automatic_reconstruction.cc:221-298).       *)
THEOREM OneStageAfterStop == A!Spec => []A!OneStageLate
<1>1. AutoInv => A!OneStageLate
  BY DEF AutoInv, UnderWay, A!OneStageLate
<1> QED BY AutoInvariance, <1>1, PTL

-----------------------------------------------------------------------------
IsList(f) == \E S : f \in Seq(S)

LEMMA AppendedList ==
    ASSUME NEW f, NEW x, IsList(f)
    PROVE  /\ IsList(Append(f, x)) /\ Len(f) \in Nat /\ Len(Append(f, x)) = Len(f) + 1
           /\ DOMAIN f = 1 .. Len(f) /\ \A k \in 1 .. Len(f) : Append(f, x)[k] = f[k]
<1>1. PICK S : f \in Seq(S)
  BY DEF IsList
<1>2. f \in Seq(S \cup {x})
  BY <1>1
<1>3. Append(f, x) \in Seq(S \cup {x}) /\ Len(Append(f, x)) = Len(f) + 1
  BY <1>2, AppendProperties
<1>4. \A k \in 1 .. Len(f) : Append(f, x)[k] = f[k]
  BY <1>2, AppendProperties
<1>5. Len(f) \in Nat /\ DOMAIN f = 1 .. Len(f)
  BY <1>1, LenProperties
<1> QED BY <1>3, <1>4, <1>5 DEF IsList

LEMMA FunctionMakesList ==
    ASSUME NEW n \in Nat, NEW f, DOMAIN f = 1 .. n, f = [k \in 1 .. n |-> f[k]]
    PROVE  IsList(f) /\ Len(f) = n
<1> DEFINE S == {f[k] : k \in 1 .. n}
<1>1. f \in [1 .. n -> S]
  OBVIOUS
<1>2. f \in Seq(S) /\ Len(f) = n
  <2> HIDE DEF S
  <2> QED BY <1>1
<1> QED BY <1>2 DEF IsList

(* What is being made does not exist yet, but for maps, which are made one    *)
(* by one.                                                                   *)
KeptInv ==
    /\ DOMAIN dense = 1 .. NumModels /\ \A m \in 1 .. NumModels : DOMAIN dense[m] = A!Dense
    /\ IsList(sparse) /\ IsList(manager) /\ Len(sparse) <= NumModels /\ Len(manager) <= NumModels
    /\ model \in Nat \ {0}
    /\ at = "make" /\ stage \in A!Dense =>
          model <= NumModels /\ (stage # "maps" => dense[model][stage] = A!None)

LEMMA KeptInit == A!StagesAssumption /\ A!Init => KeptInv
<1> SUFFICES ASSUME A!StagesAssumption, A!Init PROVE KeptInv
  OBVIOUS
<1>1. IsList(<<>>) /\ Len(<<>>) = 0
  BY DEF IsList
<1>2. NumModels \in Nat
  BY DEF A!StagesAssumption
<1>3. DOMAIN dense = 1 .. NumModels /\ \A m \in 1 .. NumModels : DOMAIN dense[m] = A!Dense
  BY DEF A!Init, A!Empty
<1> QED BY <1>1, <1>2, <1>3 DEF A!Init, A!Begun, KeptInv

Stays ==
    /\ \A k \in 1 .. NumModels, o \in A!Dense :
          dense[k][o] # A!None /\ dense[k][o][2] => dense'[k][o] = dense[k][o]
    /\ \A k \in DOMAIN sparse : sparse'[k] = sparse[k]

(* What a step may do to what is on the disk. *)
LEMMA PutKeeps ==
    ASSUME KeptInv, NEW r, A!Put(r), at = "make", stage \in A!Dense,
           dense[model][stage] # A!None /\ dense[model][stage][2] => r = dense[model][stage]
    PROVE  /\ DOMAIN dense' = 1 .. NumModels
           /\ \A m \in 1 .. NumModels : DOMAIN dense'[m] = A!Dense
           /\ \A k \in 1 .. NumModels, o \in A!Dense :
                 dense[k][o] # A!None /\ dense[k][o][2] => dense'[k][o] = dense[k][o]
BY DEF KeptInv, A!Put

LEMMA KeptInductive ==
    ASSUME A!StagesAssumption, KeptInv, [A!Next]_(A!vars)
    PROVE  KeptInv' /\ Stays
<1> USE DEF A!Checks, A!Passes, A!At, A!Goto, A!NextStage, A!Making, A!disk, A!threads,
     A!stopping, A!history, A!place
<1>n. NumModels \in Nat
  BY DEF A!StagesAssumption
<1>l. Len(sparse) \in Nat /\ Len(manager) \in Nat
  BY AppendedList DEF KeptInv
<1>0. ASSUME UNCHANGED <<dense, sparse>> PROVE Stays
  BY <1>0 DEF Stays
<1>q. ASSUME UNCHANGED <<dense, sparse, manager>>, model' \in Nat \ {0}, at' # "make"
      PROVE  KeptInv' /\ Stays
  BY <1>0, <1>q DEF KeptInv
<1>m. model \in Nat \ {0}
  BY DEF KeptInv
<1>1. CASE A!Return \/ A!NextModel \/ A!SkipStage
  BY <1>q, <1>m, <1>1 DEF A!Return, A!NextModel, A!SkipStage
<1>2. CASE A!EnterStage
  <2>1. model' = model /\ stage' = stage /\ UNCHANGED <<dense, sparse, manager>>
    BY <1>2 DEF A!EnterStage
  <2>2. stage \in A!Dense => model <= Len(manager)
    BY <1>2, <1>l DEF A!EnterStage, A!NothingLeft, KeptInv
  <2>3. stage \in A!Dense /\ stage # "maps" => dense[model][stage] = A!None
    BY <1>2 DEF A!EnterStage, A!Skipped, A!Exists
  <2> QED BY <1>0, <1>n, <1>l, <2>1, <2>2, <2>3 DEF KeptInv
<1>3. CASE A!SetActive \/ A!StartThread \/ A!WaitThread \/ A!ResetThread \/ A!ClearActive
  BY <1>q, <1>m, <1>3 DEF A!SetActive, A!StartThread, A!WaitThread, A!ResetThread, A!ClearActive
<1>4. CASE A!Read
  BY <1>0, <1>4 DEF A!Read, KeptInv
<1>5. CASE A!Map
  <2>1. PICK found \in A!SetToSeqs(1 .. NumModels), n \in 0 .. NumModels, cut \in A!MayBeCut :
             manager' = [k \in 1 .. n |-> <<found[k], database["matching"] /\ ~cut>>]
    BY <1>5 DEF A!Map
  <2>2. IsList(manager') /\ Len(manager') = n
    <3>1. n \in Nat /\ DOMAIN manager' = 1 .. n /\ manager' = [k \in 1 .. n |-> manager'[k]]
      BY <1>n, <2>1
    <3> QED BY <3>1, FunctionMakesList
  <2>3. at' = "write" /\ UNCHANGED <<stage, model, dense, sparse>>
    BY <1>5 DEF A!Map
  <2> QED BY <1>0, <1>n, <2>1, <2>2, <2>3 DEF KeptInv
<1>6. CASE A!Write
  <2>1. CASE UNCHANGED sparse
    BY <1>0, <1>6, <2>1 DEF A!Write, KeptInv
  <2>2. CASE Len(sparse) < Len(manager)
    <3>1. PICK x : sparse' = Append(sparse, x)
      BY <1>6, <2>2 DEF A!Write
    <3>2. UNCHANGED <<dense, manager, model>> /\ at' = "write"
      BY <1>6, <2>2 DEF A!Write
    <3>3. IsList(sparse') /\ Len(sparse') <= NumModels
          /\ \A k \in DOMAIN sparse : sparse'[k] = sparse[k]
      BY <1>n, <1>l, <2>2, <3>1, AppendedList DEF KeptInv
    <3> QED BY <3>2, <3>3 DEF KeptInv, Stays
  <2> QED BY <1>6, <2>1, <2>2 DEF A!Write
<1>7. CASE A!Make
  <2>1. PICK r : A!Put(r) /\ (dense[model][stage] # A!None /\ dense[model][stage][2] /\ stage = "maps"
                              => r = dense[model][stage])
    BY <1>7 DEF A!Make, A!Exists
  <2>2. at = "make" /\ stage \in A!Dense /\ at' = "check" /\ UNCHANGED <<sparse, manager>>
    BY <1>7 DEF A!Make
  <2>3. model' \in Nat \ {0}
    BY <1>7 DEF A!Make, KeptInv
  <2> QED BY <2>1, <2>2, <2>3, PutKeeps DEF KeptInv, Stays
<1>8. CASE A!Rerun
  <2>1. IsList(<<>>) /\ Len(<<>>) = 0
    BY DEF IsList
  <2> QED BY <1>0, <1>8, <1>n, <2>1 DEF A!Rerun, A!Begin, KeptInv
<1>9. CASE A!Kill
  <2>1. IsList(<<>>) /\ Len(<<>>) = 0
    BY DEF IsList
  <2>2. manager' = <<>> /\ model' = 1 /\ at' = "check"
    BY <1>9 DEF A!Kill, A!Begin
  <2>3. CASE UNCHANGED <<dense, sparse>>
    BY <1>0, <1>n, <2>1, <2>2, <2>3 DEF KeptInv
  <2>4. CASE at = "write" /\ Len(sparse) < Len(manager) /\ sparse' = Append(sparse, A!None)
             /\ UNCHANGED dense
    <3>1. IsList(sparse') /\ Len(sparse') <= NumModels
          /\ \A k \in DOMAIN sparse : sparse'[k] = sparse[k]
      BY <1>n, <1>l, <2>4, AppendedList DEF KeptInv
    <3> QED BY <1>n, <2>1, <2>2, <2>4, <3>1 DEF KeptInv, Stays
  <2>5. CASE at = "make" /\ stage \in A!Dense /\ dense[model][stage] = A!None /\ A!Put(A!Part)
             /\ UNCHANGED sparse
    BY <1>n, <2>1, <2>2, <2>5, PutKeeps DEF KeptInv, Stays
  <2> QED BY <1>9, <2>3, <2>4, <2>5 DEF A!Kill, A!Exists
<1>10. CASE \/ \E s \in A!Threads : A!ThreadEnds(s)
            \/ A!StopReads \/ A!StopThread \/ A!StopSets \/ UNCHANGED A!vars
  BY <1>0, <1>10 DEF A!ThreadEnds, A!StopReads, A!StopThread, A!StopSets, A!vars, KeptInv
<1> QED BY <1>1, <1>2, <1>3, <1>4, <1>5, <1>6, <1>7, <1>8, <1>9, <1>10 DEF A!Next, A!Run

(* What is complete stays, whatever run finds it and wherever one is killed   *)
(* (automatic_reconstruction.cc:304-315, 390-468).                            *)
THEOREM NothingCompleteLost == A!StagesAssumption /\ A!Spec => A!CompleteStays
<1> SUFFICES ASSUME A!StagesAssumption PROVE A!Spec => A!CompleteStays
  OBVIOUS
<1>1. A!Init => KeptInv
  BY KeptInit
<1>2. KeptInv /\ [A!Next]_(A!vars) => KeptInv' /\ [Stays]_(A!vars)
  BY KeptInductive
<1>3. A!CompleteStays <=> [][Stays]_(A!vars)
  BY DEF A!CompleteStays, Stays
<1> QED BY <1>1, <1>2, <1>3, PTL DEF A!Spec

-----------------------------------------------------------------------------
(* The extraction pipeline. *)
(* What the constants of the pipeline satisfy. *)
ExtractionAssumption ==
    E!ThreadsAssumption /\ E!QueueSizeAssumption /\ E!ImagesAssumption /\ E!RunsAssumption

(* The jobs in a queue, and those in the hands of all threads. *)
ElementsOf(q) == {q[k] : k \in 1 .. Len(q)}
ImagesQueued == UNION {ElementsOf(jobs[s]) : s \in E!Stages}
ImagesHeld == {carrying[t] : t \in E!Workers \cup {E!Controller}}
OnItsWay(i) == \E x \in ImagesQueued \cup ImagesHeld : x.image = i /\ x.status # "failed"

Joinings == {"wait", "stop", "join"}
(* The threads of a stage are joined. *)
PastStage(s) ==
    \/ epc = E!At("done")
    \/ s = "resize" /\ epc \in Joinings \X {"extract", "write"}
    \/ s = "extract" /\ epc \in Joinings \X {"write"}

SetupsRight ==
    /\ epc \notin {E!At("setup"), E!At("terminated")} => \A e \in Extractors : setup[e] = "valid"
    /\ \A w \in returned : carrying[w] = E!NoJob
    /\ \A e \in Extractors : setup[e] # "valid" => carrying[e] = E!NoJob
    /\ \A w \in E!Workers : PastStage(E!Stage(w)) => w \in returned

StagesInOrder ==
    /\ carrying[E!Controller] # E!NoJob <=> epc = E!At("push")
    /\ \A s \in closed : ~ecancelled \/ s = "write" => epc = <<"join", s>> \/ PastStage(s)
    /\ \A s \in E!Stages : epc \in {<<"stop", s>>, <<"join", s>>} \/ PastStage(s) => jobs[s] = <<>>
    /\ ~ecancelled => epc[1] \notin {"cancel", "clear"}
    /\ ~ecancelled /\ epc[1] \in Joinings \cup {"done"} => index = NumImages
    /\ ~ecancelled /\ epc \in {E!At("setup"), E!At("terminated")} => index = 0

HasRight(x) ==
    /\ x.status \in {"read", "features"} => x.image \notin Unreadable
    /\ x.status = "features" => x.image \notin Featureless
ComputedRight ==
    /\ db \subseteq E!Good
    /\ \A x \in ImagesQueued \cup ImagesHeld : HasRight(x)
    /\ \A s \in {"resize", "extract"} : \A x \in ElementsOf(jobs[s]) : x.status # "features"
    /\ \A x \in ElementsOf(jobs["write"]) : x.status # "read"
    /\ \A t \in Resizers \cup {E!Controller} : carrying[t].status # "features"
    /\ \A t \in Extractors \cup {Writer} : carrying[t].status # "read"

NoneLost == ~ecancelled => \A i \in 1 .. index : i \in E!Good => i \in db \/ OnItsWay(i)

ExtInv == E!TypeOK /\ SetupsRight /\ StagesInOrder /\ ComputedRight /\ NoneLost

-----------------------------------------------------------------------------
LEMMA JobFields ==
    /\ E!NoJob.image = 0 /\ E!NoJob.status = "none" /\ E!NoJob \notin E!Job
    /\ \A x \in E!Job : /\ x.image \in E!Images /\ x.status \in {"read", "features", "failed"}
                      /\ x # E!NoJob
BY DEF E!NoJob, E!Job

LEMMA JobAppended ==
    ASSUME NEW q \in Seq(E!Job), NEW x \in E!Job
    PROVE  /\ Append(q, x) \in Seq(E!Job) /\ Len(Append(q, x)) = Len(q) + 1
           /\ ElementsOf(Append(q, x)) = ElementsOf(q) \cup {x} /\ ElementsOf(q) \subseteq E!Job
<1>1. /\ Append(q, x) \in Seq(E!Job) /\ Len(Append(q, x)) = Len(q) + 1 /\ Len(q) \in Nat
      /\ Append(q, x)[Len(q) + 1] = x /\ \A k \in 1 .. Len(q) : Append(q, x)[k] = q[k] /\ q[k] \in E!Job
  BY AppendProperties, ElementOfSeq, LenProperties
<1>2. \A k : k \in 1 .. Len(q) + 1 <=> k \in 1 .. Len(q) \/ k = Len(q) + 1
  BY <1>1
<1>3. \A y : y \in ElementsOf(Append(q, x)) <=> y \in ElementsOf(q) \cup {x}
  BY <1>1, <1>2 DEF ElementsOf
<1> QED BY <1>1, <1>3 DEF ElementsOf

LEMMA JobRemoved ==
    ASSUME NEW q \in Seq(E!Job), q # <<>>
    PROVE  /\ Tail(q) \in Seq(E!Job) /\ Len(Tail(q)) = Len(q) - 1 /\ Head(q) \in E!Job
           /\ ElementsOf(q) = ElementsOf(Tail(q)) \cup {Head(q)}
<1>1. /\ Tail(q) \in Seq(E!Job) /\ Len(Tail(q)) = Len(q) - 1 /\ Head(q) \in E!Job /\ Len(q) \in Nat \ {0}
      /\ \A k \in 1 .. Len(q) - 1 : Tail(q)[k] = q[k + 1]
      /\ Head(q) = q[1]
  BY HeadTailProperties, EmptySeq, LenProperties
<1>2. \A k \in 1 .. Len(q) : k = 1 \/ (k - 1 \in 1 .. Len(q) - 1 /\ k = (k - 1) + 1)
  BY <1>1
<1>3. \A k \in 1 .. Len(q) - 1 : k + 1 \in 1 .. Len(q)
  BY <1>1
<1>4. 1 \in 1 .. Len(q)
  BY <1>1
<1>5. \A y : y \in ElementsOf(q) <=> y \in ElementsOf(Tail(q)) \cup {Head(q)}
  <2>1. ASSUME NEW y \in ElementsOf(q) PROVE y \in ElementsOf(Tail(q)) \cup {Head(q)}
    <3>1. PICK k \in 1 .. Len(q) : y = q[k]
      BY <2>1 DEF ElementsOf
    <3>2. CASE k = 1
      BY <1>1, <3>1, <3>2
    <3>3. CASE k # 1
      <4>1. k - 1 \in 1 .. Len(q) - 1 /\ Tail(q)[k - 1] = q[k]
        BY <1>1, <1>2, <3>1, <3>3
      <4>2. 1 .. Len(q) - 1 = 1 .. Len(Tail(q))
        BY <1>1
      <4> QED BY <3>1, <4>1, <4>2 DEF ElementsOf
    <3> QED BY <3>2, <3>3
  <2>2. ASSUME NEW y \in ElementsOf(Tail(q)) PROVE y \in ElementsOf(q)
    <3>1. PICK k \in 1 .. Len(Tail(q)) : y = Tail(q)[k]
      BY <2>2 DEF ElementsOf
    <3>2. y = q[k + 1] /\ k + 1 \in 1 .. Len(q)
      BY <1>1, <1>3, <3>1
    <3> QED BY <3>2 DEF ElementsOf
  <2>3. Head(q) \in ElementsOf(q)
    BY <1>1, <1>4 DEF ElementsOf
  <2> QED BY <2>1, <2>2, <2>3
<1> QED BY <1>1, <1>5

LEMMA NoElements == ElementsOf(<<>>) = {}
BY DEF ElementsOf

LEMMA StagesOfWorkers ==
    ASSUME ExtractionAssumption
    PROVE
    /\ \A w \in E!Workers : w # E!Controller
    /\ \A w \in Resizers : E!Stage(w) = "resize" /\ w # Writer /\ w \notin Extractors /\ w \in E!Workers
    /\ \A w \in Extractors : E!Stage(w) = "extract" /\ w # Writer /\ w \notin Resizers /\ w \in E!Workers
    /\ E!Stage(Writer) = "write" /\ Writer \in E!Workers /\ Writer \notin Resizers /\ Writer \notin Extractors
    /\ \A w \in E!Workers : E!Stage(w) \in E!Stages
    /\ \A w \in E!Workers : (E!Stage(w) = "resize" => w \in Resizers)
                       /\ (E!Stage(w) = "extract" => w \in Extractors) /\ (E!Stage(w) = "write" => w = Writer)
BY DEF ExtractionAssumption, E!ThreadsAssumption, E!Stage, E!Workers, E!Stages

(* A step that changes neither hands, queues nor results. *)
LEMMA NothingMoves ==
    ASSUME ExtractionAssumption, ExtInv, UNCHANGED <<db, jobs, carrying>>
    PROVE  ComputedRight' /\ (ecancelled' = ecancelled /\ index' = index => NoneLost')
           /\ (ecancelled' => NoneLost')
<1>1. ImagesQueued' = ImagesQueued /\ ImagesHeld' = ImagesHeld
  BY DEF ImagesQueued, ImagesHeld
<1>2. ComputedRight'
  BY <1>1 DEF ExtInv, ComputedRight, HasRight
<1>3. ASSUME ecancelled' = ecancelled, index' = index PROVE NoneLost'
  BY <1>1, <1>3 DEF ExtInv, NoneLost, OnItsWay
<1> QED BY <1>2, <1>3 DEF NoneLost

LEMMA ExtSignalStep ==
    ASSUME ExtractionAssumption, ExtInv, NEW e \in Extractors, E!SignalSetup(e)
    PROVE  ExtInv'
<1>1. /\ setup[e] = "starting" /\ UNCHANGED <<db, jobs, closed, carrying, epc, index, ecancelled, eruns>>
      /\ \/ setup' = [setup EXCEPT ![e] = "valid"] /\ returned' = returned
         \/ setup' = [setup EXCEPT ![e] = "invalid"] /\ returned' = returned \cup {e}
  BY DEF E!SignalSetup
<1>2. epc \in {E!At("setup"), E!At("terminated")} /\ carrying[e] = E!NoJob
  BY <1>1 DEF ExtInv, SetupsRight
<1>3. /\ setup \in [Extractors -> {"starting", "valid", "invalid"}] /\ returned \subseteq E!Workers
      /\ e \in E!Workers
  BY StagesOfWorkers DEF ExtInv, E!TypeOK
<1>4. E!TypeOK'
  BY <1>1, <1>3 DEF ExtInv, E!TypeOK
<1>5. SetupsRight'
  BY <1>1, <1>2, <1>3 DEF ExtInv, SetupsRight, PastStage
<1>6. StagesInOrder'
  BY <1>1 DEF ExtInv, StagesInOrder, PastStage
<1> QED BY <1>1, <1>4, <1>5, <1>6, NothingMoves DEF ExtInv

LEMMA ExtCheckSetupStep == ASSUME ExtractionAssumption, ExtInv, E!CheckSetup PROVE ExtInv'
<1>1. /\ epc = E!At("setup") /\ UNCHANGED <<db, jobs, closed, carrying, setup, returned, index, ecancelled, eruns>>
      /\ \/ (\A e \in Extractors : setup[e] = "valid") /\ epc' = E!At("read")
         \/ epc' = E!At("terminated")
  BY DEF E!CheckSetup
<1>2. E!TypeOK'
  BY <1>1 DEF ExtInv, E!TypeOK, E!At
<1>3. SetupsRight'
  BY <1>1 DEF ExtInv, SetupsRight, PastStage, E!At, Joinings
<1>4. StagesInOrder'
  BY <1>1 DEF ExtInv, StagesInOrder, PastStage, E!At, Joinings
<1> QED BY <1>1, <1>2, <1>3, <1>4, NothingMoves DEF ExtInv

LEMMA LoopEnds == ASSUME ExtractionAssumption, ExtInv, E!AllRead \/ E!SeeCancel PROVE ExtInv'
<1>1. /\ epc = E!At("read") /\ UNCHANGED <<db, jobs, closed, carrying, setup, returned, index, ecancelled, eruns>>
      /\ \/ epc' = <<"wait", "resize">> /\ index = NumImages
         \/ epc' = <<"cancel", "resize">> /\ ecancelled
  BY DEF E!AllRead, E!SeeCancel
<1>2. E!TypeOK'
  BY <1>1 DEF ExtInv, E!TypeOK, E!At, E!Stages
<1>3. SetupsRight'
  BY <1>1 DEF ExtInv, SetupsRight, PastStage, E!At, Joinings
<1>4. StagesInOrder'
  BY <1>1 DEF ExtInv, StagesInOrder, PastStage, E!At, Joinings
<1> QED BY <1>1, <1>2, <1>3, <1>4, NothingMoves DEF ExtInv

LEMMA CancelAsked == ASSUME ExtractionAssumption, ExtInv, E!Cancel PROVE ExtInv'
<1>1. /\ ecancelled' = TRUE /\ UNCHANGED <<db, jobs, closed, carrying, setup, returned, epc, index, eruns>>
  BY DEF E!Cancel
<1>2. E!TypeOK'
  BY <1>1 DEF ExtInv, E!TypeOK
<1>3. SetupsRight'
  BY <1>1 DEF ExtInv, SetupsRight, PastStage
<1>4. StagesInOrder'
  BY <1>1 DEF ExtInv, StagesInOrder, PastStage
<1> QED BY <1>1, <1>2, <1>3, <1>4, NothingMoves DEF ExtInv

LEMMA ExtractionStutters == ASSUME ExtractionAssumption, ExtInv, UNCHANGED E!vars PROVE ExtInv'
<1>1. E!TypeOK'
  BY DEF E!vars, ExtInv, E!TypeOK
<1>2. SetupsRight' /\ StagesInOrder'
  BY DEF E!vars, ExtInv, SetupsRight, StagesInOrder, PastStage
<1> QED BY <1>1, <1>2, NothingMoves DEF ExtInv, E!vars

LEMMA ExtDrainStep == ASSUME ExtractionAssumption, ExtInv, E!Drain PROVE ExtInv'
<1>1. UNCHANGED <<db, jobs, carrying, setup, returned, index, ecancelled, eruns>>
  BY DEF E!Drain
<1>2. PICK s \in E!Stages :
          \/ /\ epc = <<"wait", s>> /\ jobs[s] = <<>>
             /\ epc' = <<"stop", s>> /\ UNCHANGED closed
          \/ /\ epc = <<"stop", s>>
             /\ closed' = closed \cup {s} /\ epc' = <<"join", s>>
          \/ /\ epc = <<"join", s>> /\ E!Joined(s)
             /\ epc' = IF s = "write" THEN E!At("done") ELSE <<"wait", E!NextStage[s]>>
             /\ UNCHANGED closed
  BY DEF E!Drain, E!Stopping
<1>3. CASE epc = <<"wait", s>> /\ jobs[s] = <<>> /\ epc' = <<"stop", s>> /\ UNCHANGED closed
  <2>1. E!TypeOK'
    BY <1>1, <1>3 DEF ExtInv, E!TypeOK
  <2>2. SetupsRight'
    BY <1>1, <1>3 DEF ExtInv, SetupsRight, PastStage, E!At, Joinings, E!Stages
  <2>3. StagesInOrder'
    BY <1>1, <1>3 DEF ExtInv, StagesInOrder, PastStage, E!At, Joinings, E!Stages
  <2> QED BY <1>1, <2>1, <2>2, <2>3, NothingMoves DEF ExtInv
<1>4. CASE epc = <<"stop", s>> /\ closed' = closed \cup {s} /\ epc' = <<"join", s>>
  <2>1. E!TypeOK'
    BY <1>1, <1>4 DEF ExtInv, E!TypeOK
  <2>2. SetupsRight'
    BY <1>1, <1>4 DEF ExtInv, SetupsRight, PastStage, E!At, Joinings, E!Stages
  <2>3. StagesInOrder'
    BY <1>1, <1>4 DEF ExtInv, StagesInOrder, PastStage, E!At, Joinings, E!Stages
  <2> QED BY <1>1, <2>1, <2>2, <2>3, NothingMoves DEF ExtInv
<1>5. CASE /\ epc = <<"join", s>> /\ E!Joined(s)
           /\ epc' = IF s = "write" THEN E!At("done") ELSE <<"wait", E!NextStage[s]>>
           /\ UNCHANGED closed
  <2>0. E!NextStage["resize"] = "extract" /\ E!NextStage["extract"] = "write"
    BY DEF E!NextStage
  <2>1. E!TypeOK'
    BY <1>1, <1>5, <2>0 DEF ExtInv, E!TypeOK, E!At, E!Stages
  <2>2. SetupsRight'
    <3>1. \A w \in E!Workers : PastStage(E!Stage(w))' => w \in returned
      BY <1>1, <1>5, <2>0, StagesOfWorkers DEF ExtInv, SetupsRight, PastStage, E!At, Joinings, E!Stages, E!Joined
    <3> QED BY <1>1, <1>5, <2>0, <3>1 DEF ExtInv, SetupsRight, E!At, E!Stages
  <2>3. StagesInOrder'
    BY <1>1, <1>5, <2>0 DEF ExtInv, StagesInOrder, PastStage, E!At, Joinings, E!Stages
  <2> QED BY <1>1, <2>1, <2>2, <2>3, NothingMoves DEF ExtInv
<1> QED BY <1>2, <1>3, <1>4, <1>5

-----------------------------------------------------------------------------
LEMMA HandSet ==
    ASSUME ExtractionAssumption, E!TypeOK, NEW t \in E!Workers \cup {E!Controller}, NEW x \in E!Job \cup {E!NoJob}, E!Hold(t, x)
    PROVE  /\ carrying' \in [E!Workers \cup {E!Controller} -> E!Job \cup {E!NoJob}] /\ carrying'[t] = x
           /\ \A u \in E!Workers \cup {E!Controller} : u # t => carrying'[u] = carrying[u]
           /\ x \in ImagesHeld' /\ ImagesHeld' \subseteq ImagesHeld \cup {x}
           /\ \A y \in ImagesHeld : y \in ImagesHeld' \/ y = carrying[t]
<1>1. carrying \in [E!Workers \cup {E!Controller} -> E!Job \cup {E!NoJob}]
  BY DEF E!TypeOK
<1>2. /\ carrying' \in [E!Workers \cup {E!Controller} -> E!Job \cup {E!NoJob}] /\ carrying'[t] = x
      /\ \A u \in E!Workers \cup {E!Controller} : u # t => carrying'[u] = carrying[u]
  BY <1>1 DEF E!Hold
<1> QED BY <1>2 DEF ImagesHeld

LEMMA QueueSet ==
    ASSUME ExtractionAssumption, E!TypeOK, NEW s \in E!Stages, NEW q \in Seq(E!Job), Len(q) <= QueueSize,
           jobs' = [jobs EXCEPT ![s] = q]
    PROVE  /\ jobs' \in [E!Stages -> Seq(E!Job)] /\ jobs'[s] = q
           /\ \A r \in E!Stages : Len(jobs'[r]) <= QueueSize /\ (r # s => jobs'[r] = jobs[r])
           /\ ElementsOf(q) \subseteq ImagesQueued' /\ ImagesQueued' \subseteq ImagesQueued \cup ElementsOf(q)
           /\ \A y \in ImagesQueued : y \in ImagesQueued' \/ y \in ElementsOf(jobs[s])
<1>1. jobs \in [E!Stages -> Seq(E!Job)] /\ \A r \in E!Stages : Len(jobs[r]) <= QueueSize
  BY DEF E!TypeOK
<1>2. /\ jobs' \in [E!Stages -> Seq(E!Job)] /\ jobs'[s] = q
      /\ \A r \in E!Stages : r # s => jobs'[r] = jobs[r]
  BY <1>1
<1>3. \A r \in E!Stages : Len(jobs'[r]) <= QueueSize
  BY <1>1, <1>2
<1>4. /\ ElementsOf(q) \subseteq ImagesQueued' /\ ImagesQueued' \subseteq ImagesQueued \cup ElementsOf(q)
      /\ \A y \in ImagesQueued : y \in ImagesQueued' \/ y \in ElementsOf(jobs[s])
  BY <1>2, Zenon DEF ImagesQueued
<1> QED BY <1>2, <1>3, <1>4

(* An element is pushed, or refused by a stopped queue. *)
LEMMA JobPushed ==
    ASSUME ExtractionAssumption, E!TypeOK, NEW s \in E!Stages, NEW x \in E!Job, jobs' = E!Accepted(s, x), s \in closed \/ E!Room(s)
    PROVE  /\ jobs' \in [E!Stages -> Seq(E!Job)] /\ \A r \in E!Stages : Len(jobs'[r]) <= QueueSize
           /\ \A r \in E!Stages : r # s => jobs'[r] = jobs[r]
           /\ s \in closed => jobs'[s] = jobs[s]
           /\ s \notin closed => x \in ImagesQueued'
           /\ ElementsOf(jobs'[s]) \subseteq ElementsOf(jobs[s]) \cup {x}
           /\ ImagesQueued \subseteq ImagesQueued' /\ ImagesQueued' \subseteq ImagesQueued \cup {x}
<1>1. jobs[s] \in Seq(E!Job) /\ QueueSize \in Nat /\ Len(jobs[s]) \in Nat
      /\ jobs \in [E!Stages -> Seq(E!Job)] /\ \A r \in E!Stages : Len(jobs[r]) <= QueueSize
  BY LenProperties DEF ExtractionAssumption, E!TypeOK, E!QueueSizeAssumption
<1>2. CASE s \in closed
  <2>1. jobs' = jobs
    BY <1>2 DEF E!Accepted
  <2> QED BY <1>1, <1>2, <2>1 DEF ImagesQueued
<1>3. CASE s \notin closed
  <2> DEFINE q == Append(jobs[s], x)
  <2>1. /\ q \in Seq(E!Job) /\ Len(q) = Len(jobs[s]) + 1 /\ ElementsOf(q) = ElementsOf(jobs[s]) \cup {x}
    BY <1>1, JobAppended
  <2>2. Len(q) <= QueueSize /\ jobs' = [jobs EXCEPT ![s] = q]
    BY <1>1, <1>3, <2>1 DEF E!Accepted, E!Room
  <2> HIDE DEF q
  <2>3. /\ jobs' \in [E!Stages -> Seq(E!Job)] /\ jobs'[s] = q
        /\ \A r \in E!Stages : Len(jobs'[r]) <= QueueSize /\ (r # s => jobs'[r] = jobs[r])
        /\ ElementsOf(q) \subseteq ImagesQueued' /\ ImagesQueued' \subseteq ImagesQueued \cup ElementsOf(q)
        /\ \A y \in ImagesQueued : y \in ImagesQueued' \/ y \in ElementsOf(jobs[s])
    BY <2>1, <2>2, QueueSet
  <2>4. ElementsOf(jobs[s]) \subseteq ImagesQueued
    BY DEF ImagesQueued
  <2>5. x \in ElementsOf(q) /\ ElementsOf(jobs[s]) \subseteq ElementsOf(q)
        /\ ElementsOf(q) \subseteq ElementsOf(jobs[s]) \cup {x}
    BY <2>1
  <2> HIDE DEF ElementsOf, ImagesQueued
  <2>6. ImagesQueued \subseteq ImagesQueued' /\ ImagesQueued' \subseteq ImagesQueued \cup {x} /\ x \in ImagesQueued'
    BY <2>3, <2>4, <2>5, Zenon
  <2> QED BY <1>3, <2>3, <2>5, <2>6
<1> QED BY <1>2, <1>3

LEMMA ExtReadStep == ASSUME ExtractionAssumption, ExtInv, E!Read PROVE ExtInv'
<1> DEFINE x == [image |-> index + 1, status |-> E!ReadStatus(index + 1)]
<1>1. /\ epc = E!At("read") /\ index < NumImages /\ ~ecancelled /\ index' = index + 1
      /\ E!Hold(E!Controller, x) /\ epc' = E!At("push")
      /\ UNCHANGED <<db, jobs, closed, setup, returned, ecancelled, eruns>>
  BY DEF E!Read
<1>2. index \in Nat /\ NumImages \in Nat /\ index + 1 \in 1 .. NumImages
  BY <1>1 DEF ExtractionAssumption, ExtInv, E!TypeOK, E!ImagesAssumption
<1>3. x \in E!Job /\ x.image = index + 1
      /\ x.status = IF index + 1 \in db \cup Unreadable THEN "failed" ELSE "read"
  BY <1>2 DEF E!Job, E!ReadStatus, E!Images
<1> HIDE DEF x
<1>4. /\ carrying' \in [E!Workers \cup {E!Controller} -> E!Job \cup {E!NoJob}] /\ carrying'[E!Controller] = x
      /\ \A u \in E!Workers \cup {E!Controller} : u # E!Controller => carrying'[u] = carrying[u]
      /\ x \in ImagesHeld' /\ ImagesHeld' \subseteq ImagesHeld \cup {x}
      /\ \A y \in ImagesHeld : y \in ImagesHeld' \/ y = carrying[E!Controller]
  BY <1>1, <1>3, HandSet DEF ExtInv
<1>5. ImagesQueued' = ImagesQueued /\ carrying[E!Controller] = E!NoJob
  BY <1>1 DEF ImagesQueued, ExtInv, StagesInOrder, E!At
<1>6. E!TypeOK'
  BY <1>1, <1>2, <1>4 DEF ExtInv, E!TypeOK, E!At
<1>7. SetupsRight'
  BY <1>1, <1>4, StagesOfWorkers DEF ExtInv, SetupsRight, PastStage, E!At, Joinings, E!TypeOK
<1>8. StagesInOrder'
  BY <1>1, <1>3, <1>4, JobFields DEF ExtInv, StagesInOrder, PastStage, E!At, Joinings
<1>9. ComputedRight'
  <2>1. HasRight(x)
    BY <1>3 DEF HasRight
  <2>2. \A y \in (ImagesQueued \cup ImagesHeld)' : HasRight(y)
    BY <1>4, <1>5, <2>1 DEF ExtInv, ComputedRight
  <2>3. \A y : HasRight(y)' <=> HasRight(y)
    BY DEF HasRight
  <2>4. \A t \in Resizers \cup {E!Controller} : carrying'[t].status # "features"
    BY <1>3, <1>4, StagesOfWorkers DEF ExtInv, ComputedRight
  <2>5. \A t \in Extractors \cup {Writer} : carrying'[t].status # "read"
    BY <1>4, StagesOfWorkers DEF ExtInv, ComputedRight
  <2> QED BY <1>1, <2>2, <2>3, <2>4, <2>5 DEF ExtInv, ComputedRight
<1>10. NoneLost'
  <2> SUFFICES ASSUME NEW i \in 1 .. index + 1, i \in E!Good PROVE i \in db \/ OnItsWay(i)'
    BY <1>1 DEF NoneLost
  <2>1. CASE i = index + 1
    BY <1>3, <1>4, <2>1 DEF OnItsWay, E!Good
  <2>2. CASE i # index + 1
    <3>1. i \in 1 .. index
      BY <1>2, <2>2
    <3>2. i \in db \/ OnItsWay(i)
      BY <1>1, <3>1 DEF ExtInv, NoneLost
    <3>3. i # 0
      BY <3>1
    <3> QED BY <1>4, <1>5, <3>2, <3>3, JobFields DEF OnItsWay
  <2> QED BY <2>1, <2>2
<1> QED BY <1>6, <1>7, <1>8, <1>9, <1>10 DEF ExtInv

(* What of the results and the jobs a hand over keeps *)
LEMMA StillRight ==
    ASSUME ComputedRight, db' = db, \A y \in (ImagesQueued \cup ImagesHeld)' : HasRight(y),
           \A s \in {"resize", "extract"} : \A y \in ElementsOf(jobs'[s]) : y.status # "features",
           \A y \in ElementsOf(jobs'["write"]) : y.status # "read",
           \A t \in Resizers \cup {E!Controller} : carrying'[t].status # "features",
           \A t \in Extractors \cup {Writer} : carrying'[t].status # "read"
    PROVE  ComputedRight'
BY DEF ComputedRight, HasRight

LEMMA ExtPushStep == ASSUME ExtractionAssumption, ExtInv, E!Push PROVE ExtInv'
<1> DEFINE x == carrying[E!Controller]
<1>1. /\ epc = E!At("push") /\ ("resize" \in closed \/ E!Room("resize"))
      /\ jobs' = E!Accepted("resize", x) /\ E!Hold(E!Controller, E!NoJob)
      /\ epc' = IF "resize" \in closed THEN E!At("terminated") ELSE E!At("read")
      /\ UNCHANGED <<db, closed, setup, returned, index, ecancelled, eruns>>
  BY DEF E!Push
<1>2. x \in E!Job /\ x.status # "features" /\ x \in ImagesHeld
  <2>1. x # E!NoJob /\ x \in E!Job \cup {E!NoJob} /\ x.status # "features"
    <3>1. carrying[E!Controller] # E!NoJob
      BY <1>1 DEF ExtInv, StagesInOrder
    <3>2. carrying[E!Controller] \in E!Job \cup {E!NoJob}
      BY DEF ExtInv, E!TypeOK
    <3>3. carrying[E!Controller].status # "features"
      BY DEF ExtInv, ComputedRight
    <3> QED BY <3>1, <3>2, <3>3
  <2> QED BY <2>1 DEF ImagesHeld
<1>3. /\ carrying' \in [E!Workers \cup {E!Controller} -> E!Job \cup {E!NoJob}] /\ carrying'[E!Controller] = E!NoJob
      /\ \A u \in E!Workers \cup {E!Controller} : u # E!Controller => carrying'[u] = carrying[u]
      /\ ImagesHeld' \subseteq ImagesHeld \cup {E!NoJob}
      /\ \A y \in ImagesHeld : y \in ImagesHeld' \/ y = x
  BY <1>1, HandSet DEF ExtInv
<1> HIDE DEF x
<1>4. /\ jobs' \in [E!Stages -> Seq(E!Job)] /\ \A r \in E!Stages : Len(jobs'[r]) <= QueueSize
      /\ \A r \in E!Stages : r # "resize" => jobs'[r] = jobs[r]
      /\ "resize" \notin closed => x \in ImagesQueued'
      /\ ElementsOf(jobs'["resize"]) \subseteq ElementsOf(jobs["resize"]) \cup {x}
      /\ ImagesQueued \subseteq ImagesQueued' /\ ImagesQueued' \subseteq ImagesQueued \cup {x}
  BY <1>1, <1>2, JobPushed DEF ExtInv, E!Stages
<1>5. E!TypeOK'
  BY <1>1, <1>3, <1>4 DEF ExtInv, E!TypeOK, E!At
<1>10. /\ epc' \in {E!At("terminated"), E!At("read")} /\ epc' # E!At("push")
       /\ \A s \in E!Stages : ~PastStage(s) /\ ~PastStage(s)'
       /\ \A s \in E!Stages : epc' \notin {<<"stop", s>>, <<"join", s>>} /\ epc # <<"join", s>>
       /\ epc'[1] \notin Joinings \cup {"done", "cancel", "clear"}
  <2>1. epc' \in {E!At("terminated"), E!At("read")}
    BY <1>1
  <2>2. epc = <<"push", "none">> /\ epc' \in {<<"terminated", "none">>, <<"read", "none">>}
    BY <1>1, <2>1 DEF E!At
  <2>3. /\ epc' # E!At("push")
        /\ \A s \in E!Stages : epc' \notin {<<"stop", s>>, <<"join", s>>} /\ epc # <<"join", s>>
        /\ epc'[1] \notin Joinings \cup {"done", "cancel", "clear"}
    BY <2>2 DEF E!At, Joinings
  <2>4. \A s \in E!Stages : ~PastStage(s)
    BY <2>2 DEF PastStage, E!At, Joinings
  <2>5. \A s \in E!Stages : ~PastStage(s)'
    BY <2>2 DEF PastStage, E!At, Joinings
  <2> QED BY <2>1, <2>3, <2>4, <2>5
<1>0. "resize" \in closed => ecancelled
  BY <1>10 DEF ExtInv, StagesInOrder, E!Stages
<1>6. SetupsRight'
  <2>1. \A w \in returned : carrying'[w] = E!NoJob
    BY <1>3 DEF ExtInv, SetupsRight, E!TypeOK
  <2>2. \A e \in Extractors : setup[e] # "valid" => carrying'[e] = E!NoJob
    BY <1>3, StagesOfWorkers DEF ExtInv, SetupsRight
  <2>3. epc \notin {E!At("setup"), E!At("terminated")}
    BY <1>1 DEF E!At
  <2>4. \A w \in E!Workers : ~PastStage(E!Stage(w))'
    BY <1>10, StagesOfWorkers DEF E!Stage
  <2> QED BY <1>1, <2>1, <2>2, <2>3, <2>4 DEF ExtInv, SetupsRight
<1>7. StagesInOrder'
  <2>1. \A s \in closed : ecancelled /\ s # "write"
    BY <1>10 DEF ExtInv, StagesInOrder, E!TypeOK
  <2>2. ~ecancelled => epc' # E!At("setup") /\ epc' # E!At("terminated")
    <3>1. ~ecancelled => epc' = E!At("read")
      BY <1>0, <1>1
    <3>2. E!At("read") # E!At("setup") /\ E!At("read") # E!At("terminated")
      BY DEF E!At
    <3> QED BY <3>1, <3>2
  <2> QED BY <1>1, <1>3, <1>10, <2>1, <2>2 DEF StagesInOrder
<1>8. ComputedRight'
  <2>1. \A y \in (ImagesQueued \cup ImagesHeld)' : HasRight(y)
    <3>1. HasRight(E!NoJob)
      BY JobFields DEF HasRight
    <3> QED BY <1>2, <1>3, <1>4, <3>1 DEF ExtInv, ComputedRight
  <2>2. \A r \in {"resize", "extract"} : \A y \in ElementsOf(jobs'[r]) : y.status # "features"
    BY <1>2, <1>4 DEF ExtInv, ComputedRight, E!Stages
  <2>3. \A y \in ElementsOf(jobs'["write"]) : y.status # "read"
    BY <1>4 DEF ExtInv, ComputedRight, E!Stages
  <2>4. \A t \in Resizers \cup {E!Controller} : carrying'[t].status # "features"
    BY <1>3, StagesOfWorkers, JobFields DEF ExtInv, ComputedRight
  <2>5. \A t \in Extractors \cup {Writer} : carrying'[t].status # "read"
    BY <1>3, StagesOfWorkers DEF ExtInv, ComputedRight
  <2> QED BY <1>1, <2>1, <2>2, <2>3, <2>4, <2>5, StillRight DEF ExtInv
<1>9. NoneLost'
  <2> SUFFICES ASSUME ~ecancelled, NEW i \in 1 .. index, i \in E!Good PROVE i \in db \/ OnItsWay(i)'
    BY <1>1 DEF NoneLost
  <2>1. i \in db \/ OnItsWay(i)
    BY DEF ExtInv, NoneLost
  <2> QED BY <1>0, <1>3, <1>4, <2>1 DEF OnItsWay
<1> QED BY <1>5, <1>6, <1>7, <1>8, <1>9 DEF ExtInv

(* A cancel empties the queues before extraction, which hold no features.     *)
LEMMA ExtCancelSteps == ASSUME ExtractionAssumption, ExtInv, E!CancelStep PROVE ExtInv'
<1>1. /\ epc[1] \in {"cancel", "clear"} /\ ecancelled
      /\ UNCHANGED <<db, carrying, setup, returned, index, ecancelled, eruns>>
      /\ epc' \in {<<"cancel", "extract">>, <<"clear", "resize">>, <<"clear", "extract">>,
                  <<"wait", "resize">>}
      /\ closed \subseteq closed' /\ closed' \subseteq closed \cup {"resize", "extract"}
  BY DEF E!CancelStep, ExtInv, StagesInOrder
<1>2. /\ jobs' \in [E!Stages -> Seq(E!Job)]
      /\ \A s \in E!Stages : jobs'[s] = jobs[s] \/ jobs'[s] = <<>>
      /\ jobs'["write"] = jobs["write"]
  <2>1. jobs \in [E!Stages -> Seq(E!Job)] /\ <<>> \in Seq(E!Job)
    BY EmptySeq DEF ExtInv, E!TypeOK
  <2>2. jobs' \in {jobs, [jobs EXCEPT !["resize"] = <<>>],
                   [s \in E!Stages |-> IF s \in E!Emptied THEN <<>> ELSE jobs[s]]}
    BY DEF E!CancelStep
  <2> QED BY <2>1, <2>2 DEF E!Stages, E!Emptied
<1>3. \A s \in E!Stages : ElementsOf(jobs'[s]) \subseteq ElementsOf(jobs[s])
  BY <1>2, NoElements
<1>4. ImagesQueued' \subseteq ImagesQueued /\ ImagesHeld' = ImagesHeld
  BY <1>1, <1>3 DEF ImagesQueued, ImagesHeld
<1>5. E!TypeOK'
  <2>1. \A s \in E!Stages : Len(jobs'[s]) <= QueueSize
    BY <1>2, EmptySeq DEF ExtractionAssumption, E!QueueSizeAssumption, ExtInv, E!TypeOK
  <2> QED BY <1>1, <1>2, <2>1 DEF ExtInv, E!TypeOK, E!Stages
<1>6. SetupsRight'
  BY <1>1 DEF ExtInv, SetupsRight, PastStage, E!At, Joinings
<1>7. StagesInOrder'
  BY <1>1, <1>2 DEF ExtInv, StagesInOrder, PastStage, E!At, Joinings, E!Stages
<1>8. ComputedRight'
  <2>1. \A y \in (ImagesQueued \cup ImagesHeld)' : HasRight(y)
    BY <1>4 DEF ExtInv, ComputedRight
  <2>2. \A r \in {"resize", "extract"} : \A y \in ElementsOf(jobs'[r]) : y.status # "features"
    BY <1>3 DEF ExtInv, ComputedRight, E!Stages
  <2>3. \A y \in ElementsOf(jobs'["write"]) : y.status # "read"
    BY <1>2 DEF ExtInv, ComputedRight
  <2> QED BY <1>1, <2>1, <2>2, <2>3, StillRight DEF ExtInv, ComputedRight
<1>9. NoneLost'
  BY <1>1 DEF NoneLost
<1> QED BY <1>5, <1>6, <1>7, <1>8, <1>9 DEF ExtInv

-----------------------------------------------------------------------------
(* A thread that has a job or takes one is not joined, nor are those after it. *)
LEMMA NotJoined ==
    ASSUME ExtractionAssumption, ExtInv, NEW w \in E!Workers, w \notin returned
    PROVE  /\ ~PastStage(E!Stage(w))
           /\ "write" \in closed => w = Writer
           /\ ~ecancelled /\ w # Writer => E!NextStage[E!Stage(w)] \notin closed
           /\ w # Writer => LET n == E!NextStage[E!Stage(w)] IN
                 /\ n \in E!Stages /\ epc \notin {<<"stop", n>>, <<"join", n>>} /\ ~PastStage(n)
<1>1. ~PastStage(E!Stage(w))
  BY DEF ExtInv, SetupsRight
<1>2. CASE E!Stage(w) = "resize"
  <2>1. E!NextStage["resize"] = "extract" /\ ~PastStage("extract") /\ ~PastStage("write") /\ ~PastStage("resize")
    BY <1>1, <1>2 DEF E!NextStage, PastStage, Joinings
  <2> QED BY <1>1, <1>2, <2>1 DEF ExtInv, StagesInOrder, E!Stages, PastStage, Joinings
<1>3. CASE E!Stage(w) = "extract"
  <2>1. E!NextStage["extract"] = "write" /\ ~PastStage("extract") /\ ~PastStage("write")
    BY <1>1, <1>3 DEF E!NextStage, PastStage, Joinings
  <2> QED BY <1>1, <1>3, <2>1 DEF ExtInv, StagesInOrder, E!Stages, PastStage, Joinings
<1>4. CASE E!Stage(w) = "write"
  BY <1>1, <1>4, StagesOfWorkers
<1> QED BY <1>2, <1>3, <1>4, StagesOfWorkers DEF E!Stages

LEMMA ExtPopStep ==
    ASSUME ExtractionAssumption, ExtInv, NEW w \in E!Workers, E!Pop(w)
    PROVE  ExtInv'
<1> DEFINE s == E!Stage(w)
           x == Head(jobs[s])
           y == E!Processed(s, x)
<1>1. /\ w \notin returned /\ (w \in Extractors => setup[w] = "valid") /\ carrying[w] = E!NoJob
      /\ s \notin closed /\ jobs[s] # <<>> /\ E!Hold(w, y) /\ jobs' = [jobs EXCEPT ![s] = Tail(jobs[s])]
      /\ UNCHANGED <<db, closed, setup, returned, epc, index, ecancelled, eruns>>
  BY DEF E!Pop, E!Runs
<1>2. s \in E!Stages /\ jobs[s] \in Seq(E!Job) /\ Len(jobs[s]) <= QueueSize /\ Len(jobs[s]) \in Nat
  BY StagesOfWorkers, LenProperties DEF ExtInv, E!TypeOK
<1>3. /\ Tail(jobs[s]) \in Seq(E!Job) /\ Len(Tail(jobs[s])) = Len(jobs[s]) - 1 /\ x \in E!Job
      /\ ElementsOf(jobs[s]) = ElementsOf(Tail(jobs[s])) \cup {x}
  BY <1>1, <1>2, JobRemoved
<1>4. /\ jobs' \in [E!Stages -> Seq(E!Job)] /\ ElementsOf(jobs'[s]) \subseteq ElementsOf(jobs[s])
      /\ \A r \in E!Stages : Len(jobs'[r]) <= QueueSize /\ (r # s => jobs'[r] = jobs[r])
      /\ ImagesQueued' \subseteq ImagesQueued /\ \A z \in ImagesQueued : z \in ImagesQueued' \/ z = x
  <2> DEFINE q == Tail(jobs[s])
  <2>1. q \in Seq(E!Job) /\ Len(q) <= QueueSize /\ jobs' = [jobs EXCEPT ![s] = q]
    BY <1>1, <1>2, <1>3 DEF ExtractionAssumption, E!QueueSizeAssumption
  <2>2. ElementsOf(jobs[s]) = ElementsOf(q) \cup {x} /\ ElementsOf(jobs[s]) \subseteq ImagesQueued
    BY <1>2, <1>3 DEF ImagesQueued
  <2> HIDE DEF q, s, x, y
  <2>3. /\ jobs' \in [E!Stages -> Seq(E!Job)] /\ jobs'[s] = q
        /\ \A r \in E!Stages : Len(jobs'[r]) <= QueueSize /\ (r # s => jobs'[r] = jobs[r])
        /\ ElementsOf(q) \subseteq ImagesQueued' /\ ImagesQueued' \subseteq ImagesQueued \cup ElementsOf(q)
        /\ \A z \in ImagesQueued : z \in ImagesQueued' \/ z \in ElementsOf(jobs[s])
    BY <1>2, <2>1, QueueSet DEF ExtInv
  <2> HIDE DEF ElementsOf, ImagesQueued
  <2>4. ElementsOf(jobs'[s]) \subseteq ElementsOf(jobs[s]) /\ ImagesQueued' \subseteq ImagesQueued
        /\ \A z \in ImagesQueued : z \in ImagesQueued' \/ z = x
    BY <2>2, <2>3, Zenon
  <2> QED BY <2>3, <2>4
<1>5. /\ x \in ElementsOf(jobs[s]) /\ x \in ImagesQueued
      /\ s \in {"resize", "extract"} => x.status # "features"
      /\ s = "write" => x.status # "read" /\ HasRight(x)
  BY <1>2, <1>3 DEF ImagesQueued, ExtInv, ComputedRight
<1>6. /\ y \in E!Job /\ HasRight(y) /\ y.image = x.image
      /\ x.status # "failed" /\ x.image \in E!Good => y.status # "failed"
      /\ s = "resize" => y.status # "features"
      /\ s # "resize" => y.status # "read"
  <2>1. HasRight(x) /\ x.status \in {"read", "features", "failed"} /\ x.image \in E!Images
    BY <1>3, <1>5, JobFields DEF ExtInv, ComputedRight
  <2>2. CASE s = "extract" /\ x.status = "read"
    <3>1. y = [x EXCEPT !.status = IF x.image \in Featureless THEN "failed" ELSE "features"]
      BY <2>2 DEF E!Processed
    <3>2. y.image = x.image /\ y \in E!Job
          /\ y.status = IF x.image \in Featureless THEN "failed" ELSE "features"
      BY <1>3, <2>1, <3>1 DEF E!Job
    <3> QED BY <2>1, <2>2, <3>2 DEF HasRight, E!Good
  <2>3. CASE ~(s = "extract" /\ x.status = "read")
    <3>1. y = x
      BY <2>3 DEF E!Processed
    <3> QED BY <1>2, <1>3, <1>5, <2>1, <2>3, <3>1 DEF E!Stages
  <2> QED BY <2>2, <2>3
<1> HIDE DEF x, y
<1>7. /\ carrying' \in [E!Workers \cup {E!Controller} -> E!Job \cup {E!NoJob}] /\ carrying'[w] = y
      /\ \A u \in E!Workers \cup {E!Controller} : u # w => carrying'[u] = carrying[u]
      /\ y \in ImagesHeld' /\ ImagesHeld' \subseteq ImagesHeld \cup {y}
      /\ \A z \in ImagesHeld : z \in ImagesHeld' \/ z = E!NoJob
  BY <1>1, <1>6, HandSet DEF ExtInv
<1>8. E!TypeOK'
  BY <1>1, <1>4, <1>7 DEF ExtInv, E!TypeOK
<1>9. SetupsRight'
  <2>1. \A u \in returned : carrying'[u] = E!NoJob
    BY <1>1, <1>7 DEF ExtInv, SetupsRight, E!TypeOK
  <2>2. \A e \in Extractors : setup[e] # "valid" => carrying'[e] = E!NoJob
    BY <1>1, <1>7, StagesOfWorkers DEF ExtInv, SetupsRight
  <2> QED BY <1>1, <2>1, <2>2 DEF ExtInv, SetupsRight, PastStage
<1>10. StagesInOrder'
  <2>1. carrying'[E!Controller] = carrying[E!Controller]
    BY <1>7, StagesOfWorkers
  <2> QED BY <1>1, <1>4, <2>1 DEF ExtInv, StagesInOrder, PastStage
<1>11. ComputedRight'
  <2>1. \A z \in (ImagesQueued \cup ImagesHeld)' : HasRight(z)
    BY <1>4, <1>6, <1>7 DEF ExtInv, ComputedRight
  <2>2. \A r \in E!Stages : ElementsOf(jobs'[r]) \subseteq ElementsOf(jobs[r])
    BY <1>4
  <2>3. \A r \in {"resize", "extract"} : \A z \in ElementsOf(jobs'[r]) : z.status # "features"
    BY <2>2 DEF ExtInv, ComputedRight, E!Stages
  <2>4. \A z \in ElementsOf(jobs'["write"]) : z.status # "read"
    BY <2>2 DEF ExtInv, ComputedRight, E!Stages
  <2>5. \A t \in Resizers \cup {E!Controller} : carrying'[t].status # "features"
    BY <1>6, <1>7, StagesOfWorkers DEF ExtInv, ComputedRight
  <2>6. \A t \in Extractors \cup {Writer} : carrying'[t].status # "read"
    BY <1>6, <1>7, StagesOfWorkers DEF ExtInv, ComputedRight
  <2> QED BY <1>1, <2>1, <2>3, <2>4, <2>5, <2>6, StillRight DEF ExtInv
<1>12. NoneLost'
  <2> SUFFICES ASSUME ~ecancelled, NEW i \in 1 .. index, i \in E!Good PROVE i \in db \/ OnItsWay(i)'
    BY <1>1 DEF NoneLost
  <2>1. i \in db \/ OnItsWay(i)
    BY DEF ExtInv, NoneLost
  <2>2. i # 0
    OBVIOUS
  <2> QED BY <1>4, <1>6, <1>7, <2>1, <2>2, JobFields DEF OnItsWay
<1> QED BY <1>8, <1>9, <1>10, <1>11, <1>12 DEF ExtInv

LEMMA ExtPopFailsStep ==
    ASSUME ExtractionAssumption, ExtInv, NEW w \in E!Workers, E!PopFails(w)
    PROVE  ExtInv'
<1>1. /\ carrying[w] = E!NoJob /\ returned' = returned \cup {w} /\ w \in E!Workers
      /\ UNCHANGED <<db, jobs, closed, carrying, setup, epc, index, ecancelled, eruns>>
  BY DEF E!PopFails
<1>2. E!TypeOK'
  BY <1>1 DEF ExtInv, E!TypeOK
<1>3. SetupsRight'
  BY <1>1 DEF ExtInv, SetupsRight, PastStage
<1>4. StagesInOrder'
  BY <1>1 DEF ExtInv, StagesInOrder, PastStage
<1> QED BY <1>1, <1>2, <1>3, <1>4, NothingMoves DEF ExtInv

LEMMA ExtPassStep ==
    ASSUME ExtractionAssumption, ExtInv, NEW w \in E!Workers, E!Pass(w)
    PROVE  ExtInv'
<1> DEFINE x == carrying[w]
           n == E!NextStage[E!Stage(w)]
<1>1. /\ w # Writer /\ x # E!NoJob /\ (n \in closed \/ E!Room(n))
      /\ jobs' = E!Accepted(n, x) /\ E!Hold(w, E!NoJob)
      /\ UNCHANGED <<db, closed, setup, returned, epc, index, ecancelled, eruns>>
  BY DEF E!Pass
<1>2. w \notin returned /\ (w \in Extractors => setup[w] = "valid")
  BY <1>1 DEF ExtInv, SetupsRight
<1>3. /\ n \in E!Stages /\ (~ecancelled => n \notin closed)
      /\ epc \notin {<<"stop", n>>, <<"join", n>>} /\ ~PastStage(n)
  BY <1>1, <1>2, NotJoined
<1>4. /\ x \in E!Job /\ x \in ImagesHeld
      /\ \/ w \in Resizers /\ n = "extract" /\ x.status # "features"
         \/ w \in Extractors /\ n = "write" /\ x.status # "read"
  <2>1. x \in E!Job /\ x \in ImagesHeld
    BY <1>1 DEF ExtInv, E!TypeOK, ImagesHeld
  <2>2. CASE w \in Resizers
    <3>1. n = "extract"
      BY <2>2, StagesOfWorkers DEF E!NextStage
    <3>2. x.status # "features"
      BY <2>2 DEF ExtInv, ComputedRight
    <3> QED BY <2>1, <2>2, <3>1, <3>2
  <2>3. CASE w \in Extractors
    <3>1. n = "write"
      BY <2>3, StagesOfWorkers DEF E!NextStage
    <3>2. x.status # "read"
      BY <2>3 DEF ExtInv, ComputedRight
    <3> QED BY <2>1, <2>3, <3>1, <3>2
  <2> QED BY <1>1, <2>2, <2>3 DEF E!Workers
<1> HIDE DEF x, n
<1>5. /\ jobs' \in [E!Stages -> Seq(E!Job)] /\ \A r \in E!Stages : Len(jobs'[r]) <= QueueSize
      /\ \A r \in E!Stages : r # n => jobs'[r] = jobs[r]
      /\ n \notin closed => x \in ImagesQueued'
      /\ ElementsOf(jobs'[n]) \subseteq ElementsOf(jobs[n]) \cup {x}
      /\ ImagesQueued \subseteq ImagesQueued' /\ ImagesQueued' \subseteq ImagesQueued \cup {x}
  BY <1>1, <1>3, <1>4, JobPushed DEF ExtInv
<1>6. /\ carrying' \in [E!Workers \cup {E!Controller} -> E!Job \cup {E!NoJob}] /\ carrying'[w] = E!NoJob
      /\ \A u \in E!Workers \cup {E!Controller} : u # w => carrying'[u] = carrying[u]
      /\ ImagesHeld' \subseteq ImagesHeld \cup {E!NoJob}
      /\ \A z \in ImagesHeld : z \in ImagesHeld' \/ z = x
  BY <1>1, HandSet DEF ExtInv, x
<1>7. E!TypeOK'
  BY <1>1, <1>5, <1>6 DEF ExtInv, E!TypeOK
<1>8. SetupsRight'
  <2>1. \A u \in returned : carrying'[u] = E!NoJob
    BY <1>6 DEF ExtInv, SetupsRight, E!TypeOK
  <2>2. \A e \in Extractors : setup[e] # "valid" => carrying'[e] = E!NoJob
    BY <1>6, StagesOfWorkers DEF ExtInv, SetupsRight
  <2> QED BY <1>1, <2>1, <2>2 DEF ExtInv, SetupsRight, PastStage
<1>9. StagesInOrder'
  <2>1. carrying'[E!Controller] = carrying[E!Controller]
    BY <1>6, StagesOfWorkers
  <2> QED BY <1>1, <1>3, <1>5, <2>1 DEF ExtInv, StagesInOrder, PastStage
<1>10. ComputedRight'
  <2>1. \A z \in (ImagesQueued \cup ImagesHeld)' : HasRight(z)
    <3>1. HasRight(E!NoJob)
      BY JobFields DEF HasRight
    <3> QED BY <1>4, <1>5, <1>6, <3>1 DEF ExtInv, ComputedRight
  <2>2. \A r \in {"resize", "extract"} : \A z \in ElementsOf(jobs'[r]) : z.status # "features"
    BY <1>4, <1>5 DEF ExtInv, ComputedRight, E!Stages
  <2>3. \A z \in ElementsOf(jobs'["write"]) : z.status # "read"
    BY <1>4, <1>5 DEF ExtInv, ComputedRight, E!Stages
  <2>4. \A t \in Resizers \cup {E!Controller} : carrying'[t].status # "features"
    BY <1>6, StagesOfWorkers, JobFields DEF ExtInv, ComputedRight
  <2>5. \A t \in Extractors \cup {Writer} : carrying'[t].status # "read"
    BY <1>6, StagesOfWorkers, JobFields DEF ExtInv, ComputedRight
  <2> QED BY <1>1, <2>1, <2>2, <2>3, <2>4, <2>5, StillRight DEF ExtInv
<1>11. NoneLost'
  <2> SUFFICES ASSUME ~ecancelled, NEW i \in 1 .. index, i \in E!Good PROVE i \in db \/ OnItsWay(i)'
    BY <1>1 DEF NoneLost
  <2>1. i \in db \/ OnItsWay(i)
    BY DEF ExtInv, NoneLost
  <2> QED BY <1>3, <1>5, <1>6, <2>1 DEF OnItsWay
<1> QED BY <1>7, <1>8, <1>9, <1>10, <1>11 DEF ExtInv

LEMMA ExtWriteStep == ASSUME ExtractionAssumption, ExtInv, E!Write PROVE ExtInv'
<1> DEFINE x == carrying[Writer]
<1>1. /\ x # E!NoJob /\ E!Hold(Writer, E!NoJob)
      /\ db' = IF x.status = "features" THEN db \cup {x.image} ELSE db
      /\ UNCHANGED <<jobs, closed, setup, returned, epc, index, ecancelled, eruns>>
  BY DEF E!Write
<1>2. x \in E!Job /\ x.status # "read" /\ HasRight(x) /\ Writer \notin returned
  BY <1>1, StagesOfWorkers DEF ExtInv, E!TypeOK, ComputedRight, ImagesHeld, SetupsRight
<1>3. /\ carrying' \in [E!Workers \cup {E!Controller} -> E!Job \cup {E!NoJob}] /\ carrying'[Writer] = E!NoJob
      /\ \A u \in E!Workers \cup {E!Controller} : u # Writer => carrying'[u] = carrying[u]
      /\ ImagesHeld' \subseteq ImagesHeld \cup {E!NoJob}
      /\ \A z \in ImagesHeld : z \in ImagesHeld' \/ z = x
  BY <1>1, StagesOfWorkers, HandSet DEF ExtInv
<1> HIDE DEF x
<1>4. /\ db \subseteq db' /\ db' \subseteq E!Good /\ E!Good \subseteq E!Images
      /\ x.status # "failed" => x.image \in db'
  BY <1>1, <1>2, JobFields DEF ExtInv, ComputedRight, E!Good, HasRight
<1>5. ImagesQueued' = ImagesQueued
  BY <1>1 DEF ImagesQueued
<1>6. E!TypeOK'
  BY <1>1, <1>3, <1>4 DEF ExtInv, E!TypeOK
<1>7. SetupsRight'
  <2>1. \A u \in returned : carrying'[u] = E!NoJob
    BY <1>3 DEF ExtInv, SetupsRight, E!TypeOK
  <2>2. \A e \in Extractors : setup[e] # "valid" => carrying'[e] = E!NoJob
    BY <1>3, StagesOfWorkers DEF ExtInv, SetupsRight
  <2> QED BY <1>1, <2>1, <2>2 DEF ExtInv, SetupsRight, PastStage
<1>8. StagesInOrder'
  <2>1. carrying'[E!Controller] = carrying[E!Controller]
    BY <1>3, StagesOfWorkers
  <2> QED BY <1>1, <2>1 DEF ExtInv, StagesInOrder, PastStage
<1>9. ComputedRight'
  <2>1. \A z \in (ImagesQueued \cup ImagesHeld)' : HasRight(z)
    <3>1. HasRight(E!NoJob)
      BY JobFields DEF HasRight
    <3> QED BY <1>3, <1>5, <3>1 DEF ExtInv, ComputedRight
  <2>2. \A t \in Resizers \cup {E!Controller} : carrying'[t].status # "features"
    BY <1>3, StagesOfWorkers DEF ExtInv, ComputedRight
  <2>3. \A t \in Extractors \cup {Writer} : carrying'[t].status # "read"
    BY <1>3, StagesOfWorkers, JobFields DEF ExtInv, ComputedRight
  <2> QED BY <1>1, <1>4, <2>1, <2>2, <2>3 DEF ExtInv, ComputedRight, HasRight
<1>10. NoneLost'
  <2> SUFFICES ASSUME ~ecancelled, NEW i \in 1 .. index, i \in E!Good PROVE i \in db' \/ OnItsWay(i)'
    BY <1>1 DEF NoneLost
  <2>1. i \in db \/ OnItsWay(i)
    BY DEF ExtInv, NoneLost
  <2> QED BY <1>3, <1>4, <1>5, <2>1 DEF OnItsWay
<1> QED BY <1>6, <1>7, <1>8, <1>9, <1>10 DEF ExtInv

-----------------------------------------------------------------------------
(* The program has been started, perhaps again, on a database. *)
NewRun ==
    /\ db \subseteq E!Good
    /\ jobs = E!NoJobs /\ closed = {} /\ carrying = E!EmptyHands /\ setup = E!Starting /\ returned = {}
    /\ epc = E!At("setup") /\ index = 0 /\ ecancelled = FALSE /\ eruns \in 1 .. ERuns

LEMMA FreshStart == ExtractionAssumption /\ NewRun => ExtInv
<1> SUFFICES ASSUME ExtractionAssumption, NewRun PROVE ExtInv
  OBVIOUS
<1>1. /\ jobs \in [E!Stages -> Seq(E!Job)] /\ \A s \in E!Stages : jobs[s] = <<>>
      /\ carrying \in [E!Workers \cup {E!Controller} -> E!Job \cup {E!NoJob}]
      /\ \A t \in E!Workers \cup {E!Controller} : carrying[t] = E!NoJob
      /\ setup \in [Extractors -> {"starting", "valid", "invalid"}]
  BY EmptySeq DEF NewRun, E!NoJobs, E!EmptyHands, E!Starting
<1>2. ImagesQueued = {} /\ \A x \in ImagesHeld : x = E!NoJob
  BY <1>1, NoElements DEF ImagesQueued, ImagesHeld
<1>3. E!TypeOK
  <2>1. \A s \in E!Stages : Len(jobs[s]) <= QueueSize
    BY <1>1, EmptySeq DEF ExtractionAssumption, E!QueueSizeAssumption
  <2>2. index \in 0 .. NumImages
    BY DEF ExtractionAssumption, NewRun, E!ImagesAssumption
  <2> QED BY <1>1, <2>1, <2>2 DEF E!TypeOK, NewRun, E!Good, E!At
<1>4. epc = E!At("setup") /\ ~PastStage("resize") /\ ~PastStage("extract") /\ ~PastStage("write")
      /\ epc # E!At("push") /\ epc[1] \notin Joinings \cup {"done", "cancel", "clear"}
  BY DEF NewRun, E!At, PastStage, Joinings
<1>5. SetupsRight
  BY <1>1, <1>4, StagesOfWorkers DEF SetupsRight, NewRun, E!Stages
<1>6. StagesInOrder
  BY <1>1, <1>4 DEF StagesInOrder, NewRun
<1>7. ComputedRight
  <2>1. HasRight(E!NoJob)
    BY JobFields DEF HasRight
  <2> QED BY <1>1, <1>2, <2>1, NoElements, JobFields, StagesOfWorkers DEF ComputedRight, NewRun, E!Stages
<1>8. NoneLost
  BY DEF NoneLost, NewRun
<1> QED BY <1>3, <1>5, <1>6, <1>7, <1>8 DEF ExtInv

LEMMA FreshNext == ExtractionAssumption => (NewRun' => ExtInv')
<1> SUFFICES ASSUME ExtractionAssumption PROVE NewRun' => ExtInv'
  OBVIOUS
<1>1. NewRun => ExtInv
  BY FreshStart
<1> QED BY <1>1, PTL

LEMMA ExtRerunStep == ASSUME ExtractionAssumption, ExtInv, E!Rerun PROVE ExtInv'
<1>1. NewRun'
  <2>1. eruns' \in 1 .. ERuns
    BY DEF ExtractionAssumption, E!Rerun, E!RunsAssumption, ExtInv, E!TypeOK
  <2> QED BY <2>1 DEF E!Rerun, NewRun, ExtInv, ComputedRight, E!Good, E!Images, E!NoJobs, E!EmptyHands, E!Starting, E!At
<1>2. NewRun' => ExtInv'
  BY FreshNext
<1> QED BY <1>1, <1>2

LEMMA ExtractionInvariance == ExtractionAssumption /\ E!Spec => []ExtInv
<1> SUFFICES ASSUME ExtractionAssumption PROVE E!Spec => []ExtInv
  OBVIOUS
<1>1. E!Init => ExtInv
  <2>1. 1 \in 1 .. ERuns
    BY DEF ExtractionAssumption, E!RunsAssumption
  <2> QED BY <2>1, FreshStart DEF E!Init, NewRun
<1>2. ASSUME ExtInv, [E!Next]_(E!vars) PROVE ExtInv'
  <2>1. CASE E!ControllerStep
    BY <1>2, <2>1, ExtCheckSetupStep, ExtReadStep, ExtPushStep, LoopEnds, ExtCancelSteps, ExtDrainStep
       DEF E!ControllerStep
  <2>2. ASSUME NEW w \in E!Workers, E!WorkerStep(w) PROVE ExtInv'
    BY <1>2, <2>2, ExtPopStep, ExtPopFailsStep, ExtPassStep, ExtWriteStep, ExtSignalStep DEF E!WorkerStep
  <2> QED BY <1>2, <2>1, <2>2, CancelAsked, ExtRerunStep, ExtractionStutters DEF E!Next
<1> QED BY <1>1, <1>2, PTL DEF E!Spec

(* Every thread of the extraction is at a place of its loop, with a job that    *)
(* its stage may have, and every queue has jobs (feature_extraction.cc).     *)
THEOREM ExtractionTypeCorrect == ExtractionAssumption /\ E!Spec => []E!TypeOK
<1>1. ExtInv => E!TypeOK
  BY DEF ExtInv
<1> QED BY <1>1, ExtractionInvariance, PTL

(* When an extraction that was not cancelled has joined its threads, the      *)
(* database has every image that features can be extracted from, whatever     *)
(* earlier runs left and the order of the stages (564-578).                   *)
THEOREM ExtractionComplete == ExtractionAssumption /\ E!Spec => []E!AllWritten
<1> SUFFICES ASSUME ExtractionAssumption PROVE E!Spec => []E!AllWritten
  OBVIOUS
<1>1. ExtInv => E!AllWritten
  <2> SUFFICES ASSUME ExtInv, epc = E!At("done"), ~ecancelled, NEW i \in E!Good PROVE i \in db
    BY DEF E!AllWritten, ExtInv, ComputedRight
  <2>1. \A s \in E!Stages : PastStage(s) /\ jobs[s] = <<>>
    BY DEF PastStage, ExtInv, StagesInOrder
  <2>2. index = NumImages
    BY DEF E!At, ExtInv, StagesInOrder
  <2>3. i \in db \/ OnItsWay(i)
    BY <2>2 DEF ExtInv, NoneLost, E!Good, E!Images
  <2>4. \A t \in E!Workers \cup {E!Controller} : carrying[t] = E!NoJob
    <3>1. epc # E!At("push")
      BY DEF E!At
    <3> QED BY <2>1, <3>1, StagesOfWorkers DEF ExtInv, SetupsRight, StagesInOrder
  <2>5. i # 0
    BY DEF ExtractionAssumption, E!Good, E!Images
  <2> QED BY <2>1, <2>3, <2>4, <2>5, NoElements, JobFields DEF OnItsWay, ImagesQueued, ImagesHeld
<1> QED BY <1>1, ExtractionInvariance, PTL

(* The images whose features are computed but not yet committed. *)
Featured(i) == [image |-> i, status |-> "features"]

LEMMA WhereCarried ==
    ExtInv => \A i \in E!Images : E!Carried(i) <=> Featured(i) \in ImagesQueued \cup ImagesHeld
<1> SUFFICES ASSUME ExtInv, NEW i \in E!Images PROVE E!Carried(i) <=> Featured(i) \in ImagesQueued \cup ImagesHeld
  OBVIOUS
<1>1. carrying[E!Controller] # Featured(i)
  BY DEF ExtInv, ComputedRight, Featured
<1> QED BY <1>1 DEF E!Carried, ImagesQueued, ImagesHeld, ElementsOf, Featured

LEMMA WhereNext ==
    ExtInv' => \A i \in E!Images : E!Carried(i)' <=> Featured(i) \in (ImagesQueued \cup ImagesHeld)'
<1>1. ExtInv' => (\A i \in E!Images : E!Carried(i) <=> Featured(i) \in ImagesQueued \cup ImagesHeld)'
  BY WhereCarried, PTL
<1> QED BY <1>1

LEMMA CarriedStays ==
    ASSUME ExtractionAssumption, ExtInv, ExtInv', [E!Next]_(E!vars), NEW i \in E!Images, E!Carried(i), eruns' = eruns
    PROVE  E!Carried(i)' \/ i \in db'
<1> DEFINE v == Featured(i)
           Remains == v \in (ImagesQueued \cup ImagesHeld)' \/ i \in db'
<1>1. /\ v.image = i /\ v.status = "features" /\ v # E!NoJob /\ v \in ImagesQueued \cup ImagesHeld
      /\ v \in ImagesQueued => \E r \in E!Stages : v \in ElementsOf(jobs[r])
      /\ v \in ImagesHeld => \E t \in E!Workers \cup {E!Controller} : v = carrying[t]
  BY JobFields, WhereCarried DEF Featured, ImagesQueued, ImagesHeld
<1>2. carrying[E!Controller] # v
  BY <1>1 DEF ExtInv, ComputedRight
<1> HIDE DEF v
<1>3. Remains => E!Carried(i)' \/ i \in db'
  <2>1. E!Carried(i)' <=> Featured(i) \in (ImagesQueued \cup ImagesHeld)'
    BY WhereNext
  <2> QED BY <2>1 DEF v
<1>4. ASSUME UNCHANGED <<jobs, carrying>> PROVE Remains
  BY <1>1, <1>4 DEF ImagesQueued, ImagesHeld
<1>5. ASSUME NEW x \in E!Job \cup {E!NoJob}, E!Hold(E!Controller, x), jobs' = jobs \/ E!Push PROVE Remains
  <2>1. v \in ImagesHeld => v \in ImagesHeld'
    BY <1>2, <1>5, HandSet DEF ExtInv
  <2>2. v \in ImagesQueued => v \in ImagesQueued'
    <3>1. CASE jobs' = jobs
      BY <3>1 DEF ImagesQueued
    <3>2. CASE E!Push
      <4>1. /\ carrying[E!Controller] \in E!Job /\ jobs' = E!Accepted("resize", carrying[E!Controller])
            /\ "resize" \in closed \/ E!Room("resize")
        BY <3>2 DEF E!Push, ExtInv, StagesInOrder, E!TypeOK
      <4> QED BY <4>1, JobPushed DEF ExtInv, E!Stages
    <3> QED BY <1>5, <3>1, <3>2
  <2> QED BY <1>1, <2>1, <2>2
<1>6. ASSUME E!CancelStep PROVE Remains
  <2>1. PICK r \in E!Stages \cup {"hands"} : v \in ImagesHeld \/ (r \in E!Stages /\ v \in ElementsOf(jobs[r]))
    BY <1>1
  <2>2. ImagesHeld' = ImagesHeld
    BY <1>6 DEF E!CancelStep, ImagesHeld
  <2>3. CASE r \in E!Stages /\ v \in ElementsOf(jobs[r])
    <3>1. r = "write"
      BY <1>1, <2>3 DEF ExtInv, ComputedRight, E!Stages
    <3>2. jobs'["write"] = jobs["write"]
      BY <1>6 DEF E!CancelStep, E!Stages, E!Emptied, ExtInv, E!TypeOK
    <3> QED BY <2>3, <3>1, <3>2 DEF ImagesQueued, E!Stages
  <2> QED BY <2>1, <2>2, <2>3
<1>7. ASSUME NEW w \in E!Workers, E!Pop(w) PROVE Remains
  <2> DEFINE s == E!Stage(w)
             x == Head(jobs[s])
             q == Tail(jobs[s])
  <2>1. /\ carrying[w] = E!NoJob /\ s \in E!Stages /\ jobs[s] # <<>> /\ jobs[s] \in Seq(E!Job)
        /\ E!Hold(w, E!Processed(s, x)) /\ jobs' = [jobs EXCEPT ![s] = q]
        /\ jobs \in [E!Stages -> Seq(E!Job)] /\ carrying \in [E!Workers \cup {E!Controller} -> E!Job \cup {E!NoJob}]
    BY <1>7, StagesOfWorkers DEF E!Pop, ExtInv, E!TypeOK
  <2>2. ElementsOf(jobs[s]) = ElementsOf(q) \cup {x}
    BY <2>1, JobRemoved
  <2>3. carrying'[w] = E!Processed(s, x) /\ \A u \in E!Workers \cup {E!Controller} : u # w => carrying'[u] = carrying[u]
    BY <2>1 DEF E!Hold
  <2>4. x = v => carrying'[w] = v
    BY <1>1, <2>3 DEF E!Processed
  <2>5. jobs'[s] = q /\ \A r \in E!Stages : r # s => jobs'[r] = jobs[r]
    BY <2>1
  <2> HIDE DEF s, x, q
  <2>6. ASSUME NEW r \in E!Stages, v \in ElementsOf(jobs[r]) PROVE Remains
    <3>1. CASE x = v
      BY <2>4, <3>1 DEF ImagesHeld
    <3>2. CASE x # v
      <4>1. v \in ElementsOf(jobs'[r])
        BY <2>2, <2>5, <2>6, <3>2
      <4> QED BY <4>1 DEF ImagesQueued
    <3> QED BY <3>1, <3>2
  <2>7. ASSUME NEW t \in E!Workers \cup {E!Controller}, v = carrying[t] PROVE Remains
    BY <1>1, <2>1, <2>3, <2>7 DEF ImagesHeld
  <2> QED BY <1>1, <2>6, <2>7
<1>8. ASSUME NEW w \in E!Workers, E!Pass(w) PROVE Remains
  <2> DEFINE n == E!NextStage[E!Stage(w)]
             x == carrying[w]
  <2>1. /\ w # Writer /\ x # E!NoJob /\ (n \in closed \/ E!Room(n)) /\ jobs' = E!Accepted(n, x)
        /\ E!Hold(w, E!NoJob)
    BY <1>8 DEF E!Pass
  <2>2. w \notin returned /\ x \in E!Job
    BY <2>1 DEF ExtInv, SetupsRight, E!TypeOK
  <2>3. n \in E!Stages /\ ("write" \in closed => w = Writer)
    BY <2>1, <2>2, NotJoined
  <2>4. x = v => n = "write"
    <3>1. x = v => w \in Extractors
      BY <1>1, <2>1 DEF ExtInv, ComputedRight, E!Workers
    <3> QED BY <3>1, StagesOfWorkers DEF E!NextStage
  <2>5. /\ n \notin closed => x \in ImagesQueued'
        /\ ImagesQueued \subseteq ImagesQueued'
    BY <2>1, <2>2, <2>3, JobPushed DEF ExtInv
  <2>6. \A z \in ImagesHeld : z \in ImagesHeld' \/ z = x
    BY <2>1, HandSet DEF ExtInv
  <2> HIDE DEF n, x, ImagesQueued, ImagesHeld
  <2> QED BY <1>1, <2>1, <2>3, <2>4, <2>5, <2>6
<1>9. ASSUME E!Write PROVE Remains
  <2>1. \A z \in ImagesHeld : z \in ImagesHeld' \/ z = carrying[Writer]
    BY <1>9, StagesOfWorkers, HandSet DEF ExtInv, E!Write
  <2>2. carrying[Writer] = v => i \in db'
    BY <1>1, <1>9 DEF E!Write
  <2>3. ImagesQueued' = ImagesQueued
    BY <1>9 DEF ImagesQueued, E!Write
  <2> QED BY <1>1, <2>1, <2>2, <2>3
<1>10. ~E!Rerun
  BY DEF E!Rerun, ExtInv, E!TypeOK
<1>11. CASE E!ControllerStep
  <2>1. CASE E!Read
    <3>1. [image |-> index + 1, status |-> E!ReadStatus(index + 1)] \in E!Job
      <4>1. index + 1 \in E!Images
        BY <2>1 DEF ExtractionAssumption, E!Read, ExtInv, E!TypeOK, E!Images, E!ImagesAssumption
      <4> QED BY <4>1 DEF E!Job, E!ReadStatus
    <3> QED BY <1>3, <1>5, <2>1, <3>1 DEF E!Read
  <2>2. CASE E!Push
    BY <1>3, <1>5, <2>2 DEF E!Push
  <2>3. CASE E!CancelStep
    BY <1>3, <1>6, <2>3
  <2> QED BY <1>3, <1>4, <1>11, <2>1, <2>2, <2>3 DEF E!ControllerStep, E!CheckSetup, E!AllRead, E!SeeCancel, E!Drain
<1>12. ASSUME NEW w \in E!Workers, E!WorkerStep(w) PROVE Remains
  BY <1>4, <1>7, <1>8, <1>9, <1>12 DEF E!WorkerStep, E!PopFails, E!SignalSetup
<1> QED BY <1>3, <1>4, <1>10, <1>11, <1>12 DEF E!Next, E!Cancel, E!vars

(* Features that were computed are never thrown away: an image that carries   *)
(* them leaves the pipeline into the database only, also when the run is     *)
(* cancelled, for the writer's queue is neither stopped nor cleared (532-538).*)
THEOREM FeaturesNeverDropped == ExtractionAssumption /\ E!Spec => E!FeaturesKept
<1> SUFFICES ASSUME ExtractionAssumption PROVE E!Spec => E!FeaturesKept
  OBVIOUS
<1>1. ExtInv /\ ExtInv' /\ [E!Next]_(E!vars) =>
        [\A i \in E!Images : E!Carried(i) /\ eruns' = eruns => E!Carried(i)' \/ i \in db']_(E!vars)
  BY CarriedStays
<1> QED BY <1>1, ExtractionInvariance, PTL DEF E!Spec, E!FeaturesKept

-----------------------------------------------------------------------------
(* The models of one manager have numbers of their own, and the directories   *)
(* get each of them once, in the order of these.                             *)
Numbered(models) ==
    /\ IsList(models) /\ \A k \in DOMAIN models : models[k] \in A!Results
    /\ \A j, k \in DOMAIN models : models[j][1] = models[k][1] => j = k

LEMMA SameCardinality == \A S : A!Cardinality(S) = Cardinality(S)
BY DEF A!Cardinality, Cardinality

LEMMA CountUpTo == ASSUME NEW n \in Nat PROVE IsFiniteSet(1 .. n) /\ Cardinality(1 .. n) = n
<1>1. IsFiniteSet(1 .. n) /\ Cardinality(1 .. n) = IF 1 > n THEN 0 ELSE n - 1 + 1
  BY FS_Interval
<1> QED BY <1>1

LEMMA LessThan ==
    ASSUME NEW S, NEW U, IsFiniteSet(U), S \subseteq U, S # U
    PROVE  IsFiniteSet(S) /\ Cardinality(S) \in Nat /\ Cardinality(S) < Cardinality(U)
<1>1. IsFiniteSet(S) /\ Cardinality(S) <= Cardinality(U) /\ Cardinality(S) # Cardinality(U)
  BY FS_Subset
<1>2. Cardinality(S) \in Nat /\ Cardinality(U) \in Nat
  BY <1>1, FS_CardinalityType
<1> QED BY <1>1, <1>2

LEMMA BySizeMember ==
    ASSUME A!StagesAssumption, NEW models, Numbered(models)
    PROVE  \A k \in DOMAIN models : \E j \in DOMAIN models : A!BySize(models)[k] = models[j]
<1> DEFINE n == Len(models)
           D == 1 .. n
           below(j) == {i \in D : models[i][1] < models[j][1]}
<1>1. n \in Nat /\ DOMAIN models = D
  BY AppendedList DEF Numbered
<1>2. \A j \in D : models[j][1] \in Nat
  BY <1>1 DEF Numbered, A!Results, A!StagesAssumption
<1>3. IsFiniteSet(D) /\ Cardinality(D) = n
  BY <1>1, CountUpTo
<1> HIDE DEF n, D
<1>4. \A j \in D : IsFiniteSet(below(j)) /\ Cardinality(below(j)) \in Nat /\ Cardinality(below(j)) < n
  <2> TAKE j \in D
  <2>1. below(j) \subseteq D /\ j \notin below(j)
    BY <1>2
  <2> HIDE DEF below
  <2>2. IsFiniteSet(below(j)) /\ Cardinality(below(j)) \in Nat /\ Cardinality(below(j)) < Cardinality(D)
    BY <1>3, <2>1, LessThan
  <2> QED BY <1>3, <2>2
<1>5. \A i, j \in D : models[i][1] < models[j][1] => Cardinality(below(i)) < Cardinality(below(j))
  <2> TAKE i, j \in D
  <2> HAVE models[i][1] < models[j][1]
  <2>1. below(i) \subseteq below(j) /\ i \in below(j) /\ i \notin below(i)
    BY <1>2
  <2>2. IsFiniteSet(below(j))
    BY <1>4
  <2> HIDE DEF below
  <2> QED BY <2>1, <2>2, LessThan
<1> DEFINE c(j) == Cardinality(below(j))
<1>6. \A j \in D : c(j) \in Nat /\ c(j) < n
  BY <1>4
<1>7. \A i, j \in D : models[i][1] < models[j][1] => c(i) < c(j)
  BY <1>5
<1> HIDE DEF c
<1> DEFINE rank == [j \in D |-> c(j) + 1]
<1>8. rank \in [D -> D]
  BY <1>1, <1>6 DEF D
<1>9. \A i, j \in D : rank[i] = rank[j] => i = j
  <2> SUFFICES ASSUME NEW i \in D, NEW j \in D, c(i) + 1 = c(j) + 1 PROVE i = j
    OBVIOUS
  <2>1. models[i][1] \in Nat /\ models[j][1] \in Nat /\ c(i) \in Nat /\ c(j) \in Nat
    BY <1>2, <1>6
  <2>2. models[i][1] = models[j][1]
    <3>1. ~(models[i][1] < models[j][1]) /\ ~(models[j][1] < models[i][1])
      BY <1>7, <2>1
    <3> QED BY <2>1, <3>1
  <2> QED BY <1>1, <2>2 DEF Numbered
<1>10. rank \in Surjection(D, D)
  <2> HIDE DEF rank
  <2>1. rank \in Injection(D, D)
    BY <1>8, <1>9 DEF Injection, IsInjective
  <2> QED BY <1>3, <2>1, FS_Injection
<1>11. \A k \in D : \E j \in D : c(j) = k - 1
  <2> TAKE k \in D
  <2>1. \E j \in D : rank[j] = k
    <3> HIDE DEF rank
    <3> QED BY <1>10 DEF Surjection
  <2>2. PICK j \in D : c(j) + 1 = k
    BY <2>1
  <2>3. c(j) \in Nat
    BY <1>6
  <2> QED BY <2>2, <2>3
<1>12. \A j \in D : A!Larger(models, models[j]) = below(j)
  BY <1>1 DEF A!Larger
<1>13. \A k \in D : \E m \in A!Range(models) : Cardinality(A!Larger(models, m)) = k - 1
  <2> TAKE k \in D
  <2>1. PICK j \in D : c(j) = k - 1
    BY <1>11
  <2>2. models[j] \in A!Range(models)
    BY <1>1 DEF A!Range
  <2>3. Cardinality(A!Larger(models, models[j])) = k - 1
    BY <2>1, <1>12 DEF c
  <2> QED BY <2>2, <2>3
<1>14. \A k \in D : A!BySize(models)[k] \in A!Range(models)
  <2> TAKE k \in D
  <2>1. A!BySize(models)[k] =
            CHOOSE m \in A!Range(models) : Cardinality(A!Larger(models, m)) = k - 1
    BY <1>1, SameCardinality DEF A!BySize
  <2>2. \E m \in A!Range(models) : Cardinality(A!Larger(models, m)) = k - 1
    BY <1>13
  <2> QED BY <2>1, <2>2
<1> QED BY <1>1, <1>14 DEF A!Range

LEMMA WhatIsAppended ==
    ASSUME NEW f, NEW x, IsList(f)
    PROVE  \A k \in DOMAIN Append(f, x) : Append(f, x)[k] = x
                                      \/ (k \in DOMAIN f /\ Append(f, x)[k] = f[k])
<1>1. PICK S : f \in Seq(S)
  BY DEF IsList
<1>2. f \in Seq(S \cup {x}) /\ Len(f) \in Nat
  BY <1>1, LenProperties
<1>3. /\ Append(f, x) \in Seq(S \cup {x}) /\ Len(Append(f, x)) = Len(f) + 1
      /\ Append(f, x)[Len(f) + 1] = x /\ \A k \in 1 .. Len(f) : Append(f, x)[k] = f[k]
  BY <1>2, AppendProperties
<1>4. DOMAIN Append(f, x) = 1 .. Len(f) + 1 /\ DOMAIN f = 1 .. Len(f)
  BY <1>2, <1>3, LenProperties
<1>5. \A k \in 1 .. Len(f) + 1 : k \in 1 .. Len(f) \/ k = Len(f) + 1
  BY <1>2
<1> QED BY <1>3, <1>4, <1>5

(* Results are pairs; a whole one is all that its stage makes.                *)
Whole(r) == r # A!None /\ r[2]
AllOn ==
    options = [s \in {"extraction", "matching", "sparse", "dense", "cuda", "mesher"} |-> TRUE]
Trusted == clean /\ AllOn

MadeTypes ==
    /\ \A k \in DOMAIN manager : manager[k] \in A!Results
    /\ \A k \in DOMAIN sparse : sparse[k] \in A!Results \cup {A!None}
    /\ \A k \in 1 .. NumModels : \A o \in A!Dense : dense[k][o] \in A!Results \cup {A!None}
    /\ database \in [A!Threads -> BOOLEAN] /\ clean \in BOOLEAN

(* Nobody has asked anything of a thread before Stop() is called: then the    *)
(* stages of the database are complete one after the other.                  *)
Databased ==
    /\ stopper = "idle" => aasked = {}
    /\ AllOn /\ stopper = "idle" =>
          /\ stage = "matching" \/ stage \notin A!Threads => database["extraction"]
          /\ stage \notin A!Threads => database["matching"]
          /\ at \in {"reset", "clear"} => database[stage]
          /\ at = "wait" /\ child[stage] = "finished" => database[stage]

(* Where Run() is, and what that says of the models it holds. *)
PlacesOfRun ==
    /\ stage \in A!Threads \/ (stage = "sparse" /\ at # "write") => manager = <<>>
    /\ stage \notin A!Dense => model = 1
    /\ at = "write" => stage = "sparse" /\ Numbered(manager)
    /\ at = "make" => stage \notin A!Threads
    /\ at = "write" /\ manager = <<>> => sparse = <<>>

(* Whatever a later run takes for complete is. *)
ModelsWhole ==
    Trusted => /\ \A k \in DOMAIN manager : Whole(manager[k])
               /\ \A k \in DOMAIN sparse : Whole(sparse[k])
SameModels ==
    clean => \A k \in 1 .. NumModels : \A o \in A!Dense : dense[k][o] # A!None =>
        /\ manager = <<>> => k \in DOMAIN sparse /\ dense[k][o][1] = sparse[k][1]
        /\ manager # <<>> => k \in DOMAIN manager /\ dense[k][o][1] = manager[k][1]
DenseWhole ==
    Trusted => \A k \in 1 .. NumModels :
        /\ dense[k]["images"] # A!None => Whole(dense[k]["images"])
        /\ dense[k]["maps"] # A!None => dense[k]["images"] # A!None
        /\ dense[k]["fused"] # A!None => Whole(dense[k]["fused"]) /\ Whole(dense[k]["maps"])
        /\ dense[k]["mesh"] # A!None => Whole(dense[k]["mesh"]) /\ dense[k]["fused"] # A!None

(* What RunDenseMapper() has behind it. *)
Position ==
    /\ stage \in A!Dense /\ (at = "make" \/ (at = "check" /\ ~astopped)) =>
        /\ at = "make" \/ stage # "images" => model <= Len(manager)
        /\ stage # "images" => dense[model]["images"] # A!None
        /\ stage \in {"fused", "mesh"} =>
              dense[model]["maps"] # A!None /\ (Trusted => Whole(dense[model]["maps"]))
        /\ stage = "mesh" => dense[model]["fused"] # A!None
    /\ \A k \in 1 .. NumModels : k < model => dense[k]["mesh"] # A!None
    /\ at = "done" /\ ~astopped /\ AllOn => stage \in A!Dense /\ model > Len(manager)

OnDisk == ModelsWhole /\ SameModels /\ DenseWhole
MadeInv ==
    AutoInv /\ KeptInv /\ MadeTypes /\ Databased /\ PlacesOfRun /\ OnDisk /\ Position

LEMMA ResultPairs ==
    /\ \A r \in A!Results : r # A!None /\ r[1] \in 1 .. NumModels /\ r[2] \in BOOLEAN
                            /\ r = <<r[1], r[2]>>
    /\ \A m \in 1 .. NumModels, b \in BOOLEAN :
          <<m, b>> \in A!Results /\ <<m, b>>[1] = m /\ <<m, b>>[2] = b /\ <<m, b>> # A!None
<1>1. \A a, b : <<a, b>> # <<>>
  <2> TAKE a, b
  <2>1. Len(<<a, b>>) = 2 /\ Len(<<>>) = 0
    OBVIOUS
  <2> QED BY <2>1
<1> QED BY <1>1 DEF A!Results, A!None

LEMMA MadeInit == ASSUME A!StagesAssumption, A!Init PROVE MadeInv
<1>1. AutoInv /\ KeptInv
  BY AutoInit, KeptInit
<1>2. /\ sparse = <<>> /\ manager = <<>> /\ at = "check" /\ stage = "extraction" /\ model = 1
      /\ stopper = "idle" /\ aasked = {} /\ database \in [A!Threads -> BOOLEAN] /\ clean = TRUE
      /\ \A k \in 1 .. NumModels : \A o \in A!Dense : dense[k][o] = A!None
      /\ DOMAIN sparse = {} /\ DOMAIN manager = {}
  BY DEF A!Init, A!Begun, A!Empty
<1>3. stage \in A!Threads /\ stage \notin A!Dense
  BY <1>2 DEF A!Threads, A!Dense
<1>4. MadeTypes
  BY <1>2 DEF MadeTypes
<1>5. Databased /\ PlacesOfRun
  BY <1>2, <1>3 DEF Databased, PlacesOfRun
<1>6. OnDisk
  BY <1>2 DEF OnDisk, ModelsWhole, SameModels, DenseWhole, A!Dense
<1>7. Position
  <2>1. \A k \in 1 .. NumModels : ~(k < 1)
    OBVIOUS
  <2> QED BY <1>2, <1>3, <2>1 DEF Position
<1> QED BY <1>1, <1>4, <1>5, <1>6, <1>7 DEF MadeInv

(* A step that leaves the models and what is made of them alone. *)
LEMMA SameDisk ==
    ASSUME MadeInv, UNCHANGED <<options, manager, sparse, dense, clean>>
    PROVE  OnDisk' /\ (database' \in [A!Threads -> BOOLEAN] => MadeTypes')
<1>1. OnDisk'
  BY DEF MadeInv, OnDisk, ModelsWhole, SameModels, DenseWhole, Trusted, AllOn
<1> QED BY <1>1 DEF MadeInv, MadeTypes

LEMMA StepNames ==
    /\ A!Threads = {"extraction", "matching"} /\ A!Dense = {"images", "maps", "fused", "mesh"}
    /\ \A s \in A!Threads : s \notin A!Dense /\ s # "sparse"
    /\ "sparse" \notin A!Dense
    /\ A!After["extraction"] = "matching" /\ A!After["matching"] = "sparse"
    /\ A!After["sparse"] = "images" /\ A!After["images"] = "maps" /\ A!After["maps"] = "fused"
    /\ A!After["fused"] = "mesh" /\ A!After["mesh"] = "images"
BY DEF A!Threads, A!Dense, A!After

LEMMA AllOptions ==
    AllOn => /\ options["extraction"] /\ options["matching"] /\ options["sparse"]
             /\ options.dense /\ options.cuda /\ options.mesher
BY DEF AllOn

(* Run() looks at what there is, and goes on. *)
LEMMA CheckKeeps ==
    ASSUME A!StagesAssumption, MadeInv, AutoInv', KeptInv',
           A!Return \/ A!NextModel \/ A!SkipStage \/ A!EnterStage
    PROVE  MadeInv'
<1>1. /\ at = "check" /\ UNCHANGED <<options, database, sparse, dense, manager, aactive, child,
                                     aasked, astopped, stopper, aruns, late, clean>>
  BY DEF A!Return, A!NextModel, A!SkipStage, A!EnterStage, A!Passes, A!Checks, A!At, A!Goto,
         A!disk, A!threads, A!stopping, A!history
<1>2. OnDisk' /\ MadeTypes'
  BY <1>1, SameDisk DEF MadeInv, MadeTypes
<1>3. /\ NumModels \in Nat /\ model \in Nat \ {0} /\ Len(manager) \in Nat /\ Len(manager) <= NumModels
      /\ stage \in A!Stages
  BY AppendedList DEF A!StagesAssumption, MadeInv, KeptInv, AutoInv
<1>4. CASE A!Return
  <2>1. at' = "done" /\ UNCHANGED <<stage, model>> /\ (astopped \/ A!NothingLeft)
    BY <1>4 DEF A!Return, A!Goto, A!StopSeen
  <2>2. ~astopped /\ AllOn => stage \in A!Dense /\ model > Len(manager)
    BY <1>3, <2>1, AllOptions DEF A!NothingLeft
  <2>3. Databased' /\ PlacesOfRun'
    BY <1>1, <2>1 DEF MadeInv, Databased, PlacesOfRun, AllOn
  <2>4. Position'
    BY <1>1, <2>1, <2>2 DEF MadeInv, Position, AllOn
  <2> QED BY <1>2, <2>3, <2>4 DEF MadeInv
<1>5. ASSUME ~A!NothingLeft, stage \in A!Dense
      PROVE  model <= Len(manager) /\ model <= NumModels /\ model \in 1 .. NumModels
  BY <1>3, <1>5 DEF A!NothingLeft
<1>6. CASE A!NextModel
  <2>1. /\ ~A!NothingLeft /\ stage = "images" /\ dense[model]["mesh"] # A!None
        /\ model' = model + 1 /\ UNCHANGED <<at, stage>>
    BY <1>6 DEF A!NextModel, A!Passes, A!ModelDone, A!Exists
  <2>2. Databased' /\ PlacesOfRun'
    BY <1>1, <2>1, StepNames DEF MadeInv, Databased, PlacesOfRun, AllOn
  <2>3. \A k \in 1 .. NumModels : k < model + 1 => k < model \/ k = model
    BY <1>3
  <2>4. Position'
    BY <1>1, <2>1, <2>3 DEF MadeInv, Position
  <2> QED BY <1>2, <2>2, <2>4 DEF MadeInv
<1>7. CASE A!SkipStage
  <2>1. /\ ~A!NothingLeft /\ ~astopped /\ A!Skipped /\ at' = "check" /\ stage' = A!After[stage]
        /\ model' = IF stage = "mesh" THEN model + 1 ELSE model
    BY <1>7 DEF A!SkipStage, A!Passes, A!NextStage, A!StopSeen
  <2>2. /\ stage \in A!Dense => stage # "maps" /\ dense[model][stage] # A!None
        /\ stage \notin A!Dense => ~AllOn
    BY <1>3, <2>1, StepNames, AllOptions DEF A!Skipped, A!Exists, A!Stages
  <2>3. CASE stage \notin A!Dense
    <3>1. stage \in {"extraction", "matching", "sparse"} /\ model = 1 /\ model' = 1
          /\ stage' \in {"matching", "sparse", "images"} /\ manager = <<>>
          /\ (stage' = "images" <=> stage = "sparse")
      BY <1>1, <1>3, <2>1, <2>3, StepNames DEF A!Stages, MadeInv, PlacesOfRun
    <3>2. Databased' /\ PlacesOfRun'
      BY <1>1, <2>1, <2>2, <2>3, <3>1, StepNames DEF MadeInv, Databased, PlacesOfRun, AllOn
    <3>3. \A k \in 1 .. NumModels : ~(k < 1)
      OBVIOUS
    <3>4. Position'
      BY <1>1, <2>1, <3>1, <3>3, StepNames DEF Position
    <3> QED BY <1>2, <3>2, <3>4 DEF MadeInv
  <2>4. CASE stage \in A!Dense
    <3>1. /\ stage' \in A!Dense /\ stage' = A!After[stage] /\ model <= Len(manager)
          /\ model \in 1 .. NumModels
      BY <1>5, <2>1, <2>4, StepNames
    <3>2. Databased' /\ PlacesOfRun'
      BY <1>1, <2>1, <2>4, <3>1, StepNames DEF MadeInv, Databased, PlacesOfRun, AllOn
    <3>3. ASSUME stage = "mesh" PROVE Position'
      <4>1. \A k \in 1 .. NumModels : k < model + 1 => k < model \/ k = model
        BY <1>3
      <4>2. stage' = "images" /\ model' = model + 1
        BY <2>1, <3>3, StepNames
      <4>3. \A k \in 1 .. NumModels : k < model + 1 => dense[k]["mesh"] # A!None
        BY <2>2, <2>4, <3>3, <4>1 DEF MadeInv, Position
      <4>4. at' = "check" /\ dense' = dense
        BY <1>1, <2>1
      <4>5. \A k \in 1 .. NumModels : k < model' => dense'[k]["mesh"] # A!None
        BY <4>2, <4>3, <4>4
      <4> QED BY <4>2, <4>4, <4>5 DEF Position
    <3>4. ASSUME stage # "mesh" PROVE Position'
      <4>1. model' = model /\ stage \in {"images", "fused"}
        BY <2>1, <2>2, <2>4, <3>4, StepNames
      <4>2. stage = "images" => stage' = "maps" /\ dense[model]["images"] # A!None
        BY <2>2, <2>4, <3>1, StepNames
      <4>3. /\ stage = "fused" => stage' = "mesh" /\ dense[model]["images"] # A!None
            /\ stage = "fused" => dense[model]["fused"] # A!None /\ dense[model]["maps"] # A!None
            /\ stage = "fused" /\ Trusted => Whole(dense[model]["maps"])
        BY <1>1, <2>1, <2>2, <2>4, <3>1, StepNames DEF MadeInv, Position
      <4>4. Trusted' = Trusted
        BY <1>1 DEF Trusted, AllOn
      <4>5. at' = "check" /\ UNCHANGED <<dense, manager>>
        BY <1>1, <2>1
      <4>6. \A k \in 1 .. NumModels : k < model' => dense'[k]["mesh"] # A!None
        BY <4>1, <4>5 DEF MadeInv, Position
      <4>7. stage' \in {"maps", "mesh"} /\ dense[model]["images"] # A!None
            /\ (stage' = "mesh" => stage = "fused")
        BY <4>1, <4>2, <4>3
      <4> QED BY <3>1, <4>1, <4>3, <4>4, <4>5, <4>6, <4>7 DEF Position, Whole
    <3> QED BY <1>2, <3>2, <3>3, <3>4 DEF MadeInv
  <2> QED BY <2>3, <2>4
<1>8. CASE A!EnterStage
  <2>1. /\ ~A!NothingLeft /\ ~astopped /\ UNCHANGED <<stage, model>>
        /\ at' = IF stage \in A!Threads THEN "set" ELSE "make"
    BY <1>8 DEF A!EnterStage, A!Passes, A!StopSeen, A!Goto
  <2>2. Databased' /\ PlacesOfRun'
    BY <1>1, <2>1, StepNames DEF MadeInv, Databased, PlacesOfRun, AllOn
  <2>3. stage \in A!Dense => at' = "make" /\ model <= Len(manager)
    BY <1>5, <2>1, StepNames
  <2>4. Trusted' = Trusted
    BY <1>1 DEF Trusted, AllOn
  <2>5. Position'
    BY <1>1, <2>1, <2>3, <2>4 DEF MadeInv, Position, Whole
  <2> QED BY <1>2, <2>2, <2>5 DEF MadeInv
<1> QED BY <1>4, <1>6, <1>7, <1>8

(* The threads of the first two stages, and Stop(). *)
LEMMA ThreadKeeps ==
    ASSUME A!StagesAssumption, MadeInv, AutoInv', KeptInv',
           \/ A!SetActive \/ A!StartThread \/ A!WaitThread \/ A!ResetThread \/ A!ClearActive
           \/ \E s \in A!Threads : A!ThreadEnds(s)
           \/ A!StopReads \/ A!StopThread \/ A!StopSets \/ UNCHANGED A!vars
    PROVE  MadeInv'
<1>1. UNCHANGED <<options, sparse, dense, manager, clean>>
  BY DEF A!SetActive, A!StartThread, A!WaitThread, A!ResetThread, A!ClearActive, A!ThreadEnds,
         A!StopReads, A!StopThread, A!StopSets, A!vars, A!At, A!Goto, A!disk, A!stopping,
         A!history, A!place
<1>2. database' \in [A!Threads -> BOOLEAN] => OnDisk' /\ MadeTypes'
  BY <1>1, SameDisk
<1>3. /\ database \in [A!Threads -> BOOLEAN] /\ Trusted' = Trusted /\ AllOn' = AllOn
      /\ child \in [A!Threads -> {"new", "running", "finished", "destroyed"}]
      /\ \A s \in A!Threads : child[s] = "running" => at = "wait" /\ stage = s
      /\ at \in {"set", "start", "wait", "reset", "clear"} => stage \in A!Threads
  BY <1>1 DEF MadeInv, MadeTypes, Trusted, AllOn, AutoInv
<1>4. ASSUME A!SetActive \/ A!StartThread \/ A!WaitThread \/ A!ResetThread PROVE MadeInv'
  <2>1. /\ stage \in A!Threads /\ at \in {"set", "start", "wait", "reset"}
        /\ at' \in {"start", "wait", "reset", "clear"}
        /\ UNCHANGED <<database, stage, model, stopper, astopped>>
    BY <1>3, <1>4 DEF A!SetActive, A!StartThread, A!WaitThread, A!ResetThread, A!At, A!Goto,
                      A!disk, A!stopping
  <2>2. Databased'
    <3>1. stopper = "idle" => aasked' = {}
      BY <1>4 DEF MadeInv, Databased, A!SetActive, A!StartThread, A!WaitThread, A!ResetThread,
                  A!threads
    <3>2. at' = "wait" => child'[stage] = "running"
      BY <1>3, <1>4, <2>1 DEF A!SetActive, A!StartThread, A!WaitThread, A!ResetThread, A!At, A!Goto
    <3>3. at' \in {"reset", "clear"} => at = "reset" \/ (at = "wait" /\ child[stage] = "finished")
      BY <1>4 DEF A!SetActive, A!StartThread, A!WaitThread, A!ResetThread, A!At, A!Goto
    <3> QED BY <1>1, <1>3, <2>1, <3>1, <3>2, <3>3 DEF MadeInv, Databased
  <2>3. PlacesOfRun'
    BY <1>1, <2>1, StepNames DEF MadeInv, PlacesOfRun
  <2>4. Position'
    BY <1>1, <1>3, <2>1, StepNames DEF MadeInv, Position
  <2> QED BY <1>2, <1>3, <2>1, <2>2, <2>3, <2>4 DEF MadeInv
<1>5. ASSUME A!ClearActive PROVE MadeInv'
  <2>1. /\ at = "clear" /\ stage \in A!Threads /\ at' = "check" /\ stage' = A!After[stage]
        /\ model' = model /\ UNCHANGED <<database, aasked, stopper>>
    BY <1>3, <1>5, StepNames DEF A!ClearActive, A!At, A!NextStage, A!disk, A!stopping
  <2>2. /\ stage = "extraction" => stage' = "matching"
        /\ stage = "matching" => stage' = "sparse"
        /\ stage \in {"extraction", "matching"} /\ stage' \notin A!Dense
    BY <2>1, StepNames
  <2>3. Databased'
    BY <1>1, <1>3, <2>1, <2>2, StepNames DEF MadeInv, Databased
  <2>4. PlacesOfRun'
    BY <1>1, <2>1, <2>2, StepNames DEF MadeInv, PlacesOfRun
  <2>5. Position'
    BY <1>1, <1>3, <2>1, <2>2 DEF MadeInv, Position
  <2> QED BY <1>2, <1>3, <2>1, <2>3, <2>4, <2>5 DEF MadeInv
<1>6. ASSUME NEW s \in A!Threads, A!ThreadEnds(s) PROVE MadeInv'
  <2>1. /\ child[s] = "running" /\ child' = [child EXCEPT ![s] = "finished"]
        /\ UNCHANGED <<at, stage, model, aasked, stopper, astopped>>
    BY <1>6 DEF A!ThreadEnds, A!place, A!stopping
  <2>2. at = "wait" /\ stage = s
    BY <1>3, <2>1
  <2>3. PICK whole \in IF s \in aasked THEN BOOLEAN ELSE {TRUE} :
            database' = [database EXCEPT ![s] =
                            @ \/ (whole /\ (s = "matching" => database["extraction"]))]
    BY <1>6 DEF A!ThreadEnds
  <2>4. database' \in [A!Threads -> BOOLEAN]
    BY <1>3, <2>3
  <2>5. \A r \in A!Threads : database[r] => database'[r]
    BY <1>3, <2>3
  <2>6. AllOn /\ stopper = "idle" => database'[s]
    BY <1>3, <2>2, <2>3 DEF MadeInv, Databased
  <2>7. Databased'
    BY <1>1, <1>3, <2>1, <2>2, <2>5, <2>6, StepNames DEF MadeInv, Databased
  <2>8. PlacesOfRun' /\ Position'
    BY <1>1, <1>3, <2>1 DEF MadeInv, PlacesOfRun, Position
  <2> QED BY <1>2, <2>4, <2>7, <2>8 DEF MadeInv
<1>7. ASSUME A!StopReads \/ A!StopThread \/ A!StopSets PROVE MadeInv'
  <2>1. UNCHANGED <<at, stage, model, database>> /\ (astopped => astopped')
    BY <1>7 DEF A!StopReads, A!StopThread, A!StopSets, A!place, A!disk
  <2>2. stopper' # "idle"
    BY <1>7, StepNames DEF A!StopReads, A!StopThread, A!StopSets, MadeInv, AutoInv
  <2>3. Databased' /\ PlacesOfRun'
    BY <1>1, <2>1, <2>2 DEF MadeInv, Databased, PlacesOfRun
  <2>4. Position'
    BY <1>1, <1>3, <2>1 DEF MadeInv, Position
  <2> QED BY <1>2, <1>3, <2>1, <2>3, <2>4 DEF MadeInv
<1>8. ASSUME UNCHANGED A!vars PROVE MadeInv'
  <2>1. UNCHANGED <<at, stage, model, database, child, aasked, stopper, astopped>>
    BY <1>8 DEF A!vars, A!disk, A!place, A!threads, A!stopping
  <2>2. Databased' /\ PlacesOfRun' /\ Position'
    BY <1>1, <1>3, <2>1 DEF MadeInv, Databased, PlacesOfRun, Position
  <2> QED BY <1>2, <1>3, <2>1, <2>2 DEF MadeInv
<1> QED BY <1>4, <1>5, <1>6, <1>7, <1>8

(* The mapper reads what models there are, or maps and writes them. *)
LEMMA MapperKeeps ==
    ASSUME A!StagesAssumption, MadeInv, AutoInv', KeptInv', A!Read \/ A!Map \/ A!Write
    PROVE  MadeInv'
<1>1. /\ UNCHANGED <<options, database, dense, aasked, child, stopper, astopped>> /\ stage = "sparse"
      /\ NumModels \in Nat
  BY DEF A!Read, A!Map, A!Write, A!At, A!Making, A!disk, A!threads, A!stopping, MadeInv,
         PlacesOfRun, A!StagesAssumption
<1>2. /\ stage \notin A!Dense /\ stage \notin A!Threads /\ model = 1 /\ AllOn' = AllOn
      /\ \A k \in 1 .. NumModels : ~(k < 1)
  BY <1>1, StepNames DEF MadeInv, PlacesOfRun, AllOn
<1>n. ASSUME A!NextStage PROVE at' = "check" /\ stage' = "images" /\ model' = 1
  BY <1>1, <1>2, <1>n, StepNames DEF A!NextStage
<1>d. ASSUME at' \in {"check", "write", "threw"}, stage' \in {"sparse", "images"}, model' = 1
      PROVE  Databased' /\ Position'
  <2>1. Databased'
    BY <1>1, <1>2, <1>d, StepNames DEF MadeInv, Databased
  <2>2. Position'
    BY <1>1, <1>2, <1>d DEF Position
  <2> QED BY <2>1, <2>2
<1>e. \A f : IsList(f) => Len(f) \in Nat /\ DOMAIN f = 1 .. Len(f)
  BY AppendedList
<1>3. CASE A!Read
  <2>1. at = "make" /\ sparse # <<>> /\ manager = <<>> /\ UNCHANGED <<sparse, clean>>
    BY <1>1, <1>3 DEF A!Read, A!Making, A!At, A!disk, A!history, MadeInv, PlacesOfRun
  <2>2. CASE A!None \in A!Range(sparse)
    <3>1. at' = "threw" /\ UNCHANGED <<stage, model, manager>>
      BY <1>3, <2>2 DEF A!Read, A!Goto
    <3>2. OnDisk' /\ MadeTypes'
      BY <1>1, <2>1, <3>1, SameDisk DEF MadeInv, MadeTypes
    <3>3. PlacesOfRun'
      BY <1>1, <1>2, <2>1, <3>1 DEF PlacesOfRun
    <3> QED BY <1>1, <1>2, <1>d, <3>1, <3>2, <3>3 DEF MadeInv
  <2>3. CASE A!None \notin A!Range(sparse)
    <3>1. at' = "check" /\ stage' = "images" /\ model' = 1 /\ manager' = sparse
      BY <1>3, <1>n, <2>3 DEF A!Read
    <3>2. \A k \in DOMAIN sparse : sparse[k] \in A!Results
      BY <2>3 DEF MadeInv, MadeTypes, A!Range
    <3>3. MadeTypes'
      BY <1>1, <2>1, <3>1, <3>2 DEF MadeInv, MadeTypes
    <3>4. OnDisk'
      BY <1>1, <1>2, <2>1, <3>1 DEF MadeInv, OnDisk, ModelsWhole, SameModels, DenseWhole, Trusted
    <3>5. PlacesOfRun'
      BY <3>1, StepNames DEF PlacesOfRun
    <3> QED BY <1>d, <3>1, <3>3, <3>4, <3>5 DEF MadeInv
  <2> QED BY <2>2, <2>3
<1>4. CASE A!Map
  <2>1. PICK found \in A!SetToSeqs(1 .. NumModels), n \in 0 .. NumModels, cut \in A!MayBeCut :
             manager' = [k \in 1 .. n |-> <<found[k], database["matching"] /\ ~cut>>]
    BY <1>4 DEF A!Map
  <2>2. /\ at = "make" /\ at' = "write" /\ UNCHANGED <<stage, model, sparse>> /\ sparse = <<>>
        /\ manager = <<>> /\ clean' = (clean /\ stopper = "idle") /\ clean' \in BOOLEAN
    BY <1>1, <1>4 DEF A!Map, A!Making, A!At, A!disk, MadeInv, PlacesOfRun
  <2>3. /\ \A k \in 1 .. n : found[k] \in 1 .. NumModels
        /\ \A j, k \in 1 .. n : found[j] = found[k] => j = k
    <3>1. IsFiniteSet(1 .. NumModels) /\ A!Cardinality(1 .. NumModels) = NumModels
      <4>1. A!Cardinality(1 .. NumModels) = Cardinality(1 .. NumModels)
        BY SameCardinality
      <4>2. NumModels \in Nat
        BY <1>1
      <4>3. IsFiniteSet(1 .. NumModels) /\ Cardinality(1 .. NumModels) = NumModels
        BY <4>2, CountUpTo
      <4> QED BY <4>1, <4>3
    <3>2. found \in [1 .. NumModels -> 1 .. NumModels]
          /\ \A i, j \in 1 .. NumModels : i # j => found[i] # found[j]
      BY <3>1 DEF A!SetToSeqs
    <3> QED BY <1>1, <3>2
  <2>4. database["matching"] \in BOOLEAN /\ cut \in BOOLEAN
    BY StepNames DEF MadeInv, MadeTypes, A!MayBeCut
  <2>5. /\ DOMAIN manager' = 1 .. n
        /\ \A k \in 1 .. n : /\ manager'[k] \in A!Results /\ manager'[k][1] = found[k]
                            /\ manager'[k][2] = (database["matching"] /\ ~cut)
    <3>1. \A k \in 1 .. n : manager'[k] = <<found[k], database["matching"] /\ ~cut>>
      BY <2>1
    <3> QED BY <2>1, <2>3, <2>4, <3>1, ResultPairs
  <2>6. Numbered(manager')
    BY <2>3, <2>5 DEF Numbered, KeptInv
  <2>7. \A k \in 1 .. NumModels : \A o \in A!Dense : clean => dense[k][o] = A!None
    BY <1>e, <2>2 DEF MadeInv, OnDisk, SameModels
  <2>8. Trusted' => \A k \in DOMAIN manager' : Whole(manager'[k])
    <3>1. Trusted' => stopper = "idle" /\ AllOn /\ ~astopped
      BY <1>2, <2>2 DEF Trusted, MadeInv, AutoInv
    <3>2. Trusted' => database["matching"] /\ ~cut
      BY <1>1, <1>2, <3>1 DEF MadeInv, Databased, A!MayBeCut
    <3> QED BY <2>5, <3>2, ResultPairs DEF Whole
  <2>9. MadeTypes'
    BY <1>1, <2>2, <2>5 DEF MadeInv, MadeTypes
  <2>10. OnDisk'
    <3>1. ModelsWhole'
      BY <2>2, <2>8 DEF ModelsWhole
    <3>2. SameModels' /\ DenseWhole'
      BY <1>1, <2>2, <2>7, StepNames DEF SameModels, DenseWhole, Trusted
    <3> QED BY <3>1, <3>2 DEF OnDisk
  <2>11. PlacesOfRun'
    BY <1>1, <1>2, <2>2, <2>6 DEF PlacesOfRun
  <2> QED BY <1>1, <1>2, <1>d, <2>2, <2>9, <2>10, <2>11 DEF MadeInv
<1>5. CASE A!Write
  <2>1. at = "write" /\ Numbered(manager) /\ clean' = clean
    BY <1>5 DEF A!Write, A!At, A!history, MadeInv, PlacesOfRun
  <2>2. CASE Len(sparse) < Len(manager)
    <3> DEFINE x == A!BySize(manager)[Len(sparse) + 1]
    <3>1. sparse' = Append(sparse, x) /\ at' = "write" /\ UNCHANGED <<stage, model, manager>>
      BY <1>5, <2>2 DEF A!Write, A!Goto
    <3>2. /\ IsList(sparse) /\ IsList(manager) /\ Len(sparse) \in Nat /\ Len(manager) \in Nat
          /\ DOMAIN sparse = 1 .. Len(sparse) /\ DOMAIN manager = 1 .. Len(manager)
      BY <1>e DEF MadeInv, KeptInv
    <3>3. PICK j \in DOMAIN manager : x = manager[j]
      <4>1. Len(sparse) + 1 \in DOMAIN manager
        BY <2>2, <3>2
      <4> QED BY <2>1, <4>1, BySizeMember
    <3>4. x \in A!Results /\ (Trusted => Whole(x)) /\ manager # <<>>
      BY <3>2, <3>3 DEF MadeInv, MadeTypes, OnDisk, ModelsWhole
    <3> HIDE DEF x
    <3>5. \A k \in DOMAIN sparse' : sparse'[k] = x \/ (k \in DOMAIN sparse /\ sparse'[k] = sparse[k])
      BY <3>1, <3>2, WhatIsAppended
    <3>6. MadeTypes'
      BY <1>1, <2>1, <3>1, <3>4, <3>5 DEF MadeInv, MadeTypes
    <3>7. OnDisk'
      BY <1>1, <1>2, <2>1, <3>1, <3>4, <3>5 DEF MadeInv, OnDisk, ModelsWhole, SameModels, DenseWhole, Trusted
    <3>8. PlacesOfRun'
      BY <1>1, <1>2, <2>1, <3>1, <3>4 DEF PlacesOfRun
    <3> QED BY <1>1, <1>2, <1>d, <3>1, <3>6, <3>7, <3>8 DEF MadeInv
  <2>3. CASE ~(Len(sparse) < Len(manager))
    <3>1. UNCHANGED <<sparse, manager>> /\ at' = "check" /\ stage' = "images" /\ model' = 1
      BY <1>5, <1>n, <2>3 DEF A!Write
    <3>2. OnDisk' /\ MadeTypes'
      BY <1>1, <2>1, <3>1, SameDisk DEF MadeInv, MadeTypes
    <3>3. PlacesOfRun'
      BY <3>1, StepNames DEF PlacesOfRun
    <3> QED BY <1>d, <3>1, <3>2, <3>3 DEF MadeInv
  <2> QED BY <2>2, <2>3
<1> QED BY <1>3, <1>4, <1>5

(* A result is put where the stage puts it. *)
LEMMA ResultPut ==
    ASSUME A!StagesAssumption, MadeInv, at = "make", stage \in A!Dense, UNCHANGED options,
           NEW r \in A!Results, A!Put(r), clean' \in BOOLEAN, clean' => clean,
           clean' => r[1] = manager[model][1],
           Trusted' /\ stage # "maps" => Whole(r),
           stage = "maps" /\ Whole(dense[model]["maps"]) => r = dense[model]["maps"]
    PROVE  /\ \A k \in 1 .. NumModels : \A o \in A!Dense : dense'[k][o] \in A!Results \cup {A!None}
           /\ DenseWhole'
           /\ clean' => \A k \in 1 .. NumModels : \A o \in A!Dense : dense'[k][o] # A!None =>
                  manager # <<>> /\ k \in DOMAIN manager /\ dense'[k][o][1] = manager[k][1]
           /\ model \in 1 .. NumModels /\ model <= Len(manager) /\ manager # <<>>
           /\ \A k \in 1 .. NumModels : \A o \in A!Dense :
                  dense'[k][o] = IF k = model /\ o = stage THEN r ELSE dense[k][o]
<1>1. /\ model \in 1 .. NumModels /\ model <= Len(manager) /\ manager # <<>> /\ model \in DOMAIN manager
  <2>1. /\ model <= Len(manager) /\ model \in Nat \ {0} /\ NumModels \in Nat /\ Len(manager) <= NumModels
        /\ Len(manager) \in Nat /\ DOMAIN manager = 1 .. Len(manager)
    BY AppendedList DEF MadeInv, Position, KeptInv, A!StagesAssumption
  <2> QED BY <2>1
<1>2. \A k \in 1 .. NumModels : \A o \in A!Dense :
          dense'[k][o] = IF k = model /\ o = stage THEN r ELSE dense[k][o]
  BY <1>1 DEF A!Put, MadeInv, KeptInv
<1>3. r # A!None
  BY ResultPairs
<1>4. \A k \in 1 .. NumModels : \A o \in A!Dense : dense'[k][o] \in A!Results \cup {A!None}
  BY <1>2 DEF MadeInv, MadeTypes
<1>5. ASSUME clean', NEW k \in 1 .. NumModels, NEW o \in A!Dense, dense'[k][o] # A!None
      PROVE  k \in DOMAIN manager /\ dense'[k][o][1] = manager[k][1]
  <2>1. CASE k = model /\ o = stage
    BY <1>1, <1>2, <1>5, <2>1
  <2>2. CASE ~(k = model /\ o = stage)
    <3>1. dense'[k][o] = dense[k][o]
      BY <1>2, <2>2
    <3> QED BY <1>1, <1>5, <3>1 DEF MadeInv, OnDisk, SameModels
  <2> QED BY <2>1, <2>2
<1>6. DenseWhole'
  <2> SUFFICES ASSUME Trusted', NEW k \in 1 .. NumModels
      PROVE  /\ dense'[k]["images"] # A!None => Whole(dense'[k]["images"])
             /\ dense'[k]["maps"] # A!None => dense'[k]["images"] # A!None
             /\ dense'[k]["fused"] # A!None => Whole(dense'[k]["fused"]) /\ Whole(dense'[k]["maps"])
             /\ dense'[k]["mesh"] # A!None => Whole(dense'[k]["mesh"]) /\ dense'[k]["fused"] # A!None
    BY DEF DenseWhole, Whole
  <2>1. Trusted
    BY DEF Trusted, AllOn
  <2>2. /\ dense[k]["images"] # A!None => Whole(dense[k]["images"])
        /\ dense[k]["maps"] # A!None => dense[k]["images"] # A!None
        /\ dense[k]["fused"] # A!None => Whole(dense[k]["fused"]) /\ Whole(dense[k]["maps"])
        /\ dense[k]["mesh"] # A!None => Whole(dense[k]["mesh"]) /\ dense[k]["fused"] # A!None
    BY <2>1 DEF MadeInv, OnDisk, DenseWhole
  <2>3. /\ dense'[k]["images"] = IF k = model /\ stage = "images" THEN r ELSE dense[k]["images"]
        /\ dense'[k]["maps"] = IF k = model /\ stage = "maps" THEN r ELSE dense[k]["maps"]
        /\ dense'[k]["fused"] = IF k = model /\ stage = "fused" THEN r ELSE dense[k]["fused"]
        /\ dense'[k]["mesh"] = IF k = model /\ stage = "mesh" THEN r ELSE dense[k]["mesh"]
    BY <1>2, StepNames
  <2>4. /\ stage # "images" => dense[model]["images"] # A!None
        /\ stage \in {"fused", "mesh"} => Whole(dense[model]["maps"])
        /\ stage = "mesh" => dense[model]["fused"] # A!None
    BY <2>1 DEF MadeInv, Position
  <2>5. CASE k # model
    BY <2>2, <2>3, <2>5
  <2>6. CASE k = model /\ stage = "images"
    BY <1>3, <2>2, <2>3, <2>6
  <2>7. CASE k = model /\ stage = "maps"
    BY <1>3, <2>2, <2>3, <2>4, <2>7
  <2>8. CASE k = model /\ stage = "fused"
    BY <1>3, <2>2, <2>3, <2>4, <2>8
  <2>9. CASE k = model /\ stage = "mesh"
    BY <1>3, <2>2, <2>3, <2>4, <2>9
  <2> QED BY <2>5, <2>6, <2>7, <2>8, <2>9, StepNames
<1> QED BY <1>1, <1>2, <1>4, <1>5, <1>6

LEMMA InputType ==
    ASSUME A!StagesAssumption, MadeInv, at = "make", stage \in A!Dense
    PROVE  A!Input \in A!Results /\ (clean => A!Input[1] = manager[model][1])
           /\ (Trusted => A!Input[2])
<1>1. model \in 1 .. NumModels /\ model \in DOMAIN manager /\ manager # <<>>
  <2>1. /\ model <= Len(manager) /\ model \in Nat \ {0} /\ NumModels \in Nat /\ Len(manager) <= NumModels
        /\ Len(manager) \in Nat /\ DOMAIN manager = 1 .. Len(manager)
    BY AppendedList DEF MadeInv, Position, KeptInv, A!StagesAssumption
  <2> QED BY <2>1
<1>2. CASE stage = "images"
  <2>1. A!Input = manager[model]
    BY <1>2 DEF A!Input
  <2> QED BY <1>1, <2>1 DEF MadeInv, MadeTypes, OnDisk, ModelsWhole, Whole
<1>3. ASSUME NEW o \in A!Dense, A!Input = dense[model][o], dense[model][o] # A!None,
             Trusted => Whole(dense[model][o])
      PROVE  A!Input \in A!Results /\ (clean => A!Input[1] = manager[model][1])
             /\ (Trusted => A!Input[2])
  BY <1>1, <1>3 DEF MadeInv, MadeTypes, OnDisk, SameModels, Whole
<1>4. CASE stage = "maps"
  <2>1. A!Input = dense[model]["images"] /\ dense[model]["images"] # A!None
    BY <1>4 DEF A!Input, MadeInv, Position
  <2>2. Trusted => Whole(dense[model]["images"])
    BY <1>1, <2>1 DEF MadeInv, OnDisk, DenseWhole
  <2> QED BY <1>3, <2>1, <2>2, StepNames
<1>5. CASE stage = "fused"
  <2>1. A!Input = dense[model]["maps"] /\ dense[model]["maps"] # A!None
        /\ (Trusted => Whole(dense[model]["maps"]))
    BY <1>5 DEF A!Input, MadeInv, Position
  <2> QED BY <1>3, <2>1, StepNames
<1>6. CASE stage = "mesh"
  <2>1. A!Input = dense[model]["fused"] /\ dense[model]["fused"] # A!None
    BY <1>6 DEF A!Input, MadeInv, Position
  <2>2. Trusted => Whole(dense[model]["fused"])
    BY <1>1, <2>1 DEF MadeInv, OnDisk, DenseWhole
  <2> QED BY <1>3, <2>1, <2>2, StepNames
<1> QED BY <1>2, <1>4, <1>5, <1>6, StepNames

LEMMA MakeKeeps ==
    ASSUME A!StagesAssumption, MadeInv, AutoInv', KeptInv', A!Make
    PROVE  MadeInv'
<1>1. /\ at = "make" /\ stage \in A!Dense /\ at' = "check" /\ stage' = A!After[stage]
      /\ model' = IF stage = "mesh" THEN model + 1 ELSE model
      /\ UNCHANGED <<options, database, sparse, manager, aactive, child, aasked, astopped, stopper, aruns>>
      /\ clean' = (clean /\ (stage \in {"images", "fused"} => ~astopped))
  BY DEF A!Make, A!Making, A!At, A!NextStage, A!threads, A!stopping
<1>2. PICK cut \in IF stage = "mesh" THEN {FALSE} ELSE A!MayBeCut :
          A!Put(IF stage = "maps" /\ A!Exists("maps") /\ dense[model]["maps"][2] THEN dense[model]["maps"]
                ELSE <<A!Input[1], A!Input[2] /\ ~cut>>)
  BY DEF A!Make
<1> DEFINE r == IF stage = "maps" /\ Whole(dense[model]["maps"]) THEN dense[model]["maps"]
                ELSE <<A!Input[1], A!Input[2] /\ ~cut>>
<1>3. A!Put(r)
  BY <1>2 DEF A!Exists, Whole
<1>4. cut \in BOOLEAN /\ (~astopped => ~cut) /\ (stage = "mesh" => ~cut)
  BY <1>2 DEF A!MayBeCut
<1>5. A!Input \in A!Results /\ (clean => A!Input[1] = manager[model][1]) /\ (Trusted => A!Input[2])
  BY <1>1, InputType
<1>6. clean' \in BOOLEAN /\ (clean' => clean) /\ (Trusted' => Trusted) /\ model \in Nat /\ NumModels \in Nat
      /\ Len(manager) \in Nat
  BY <1>1, AppendedList DEF MadeInv, MadeTypes, Trusted, AllOn, KeptInv, A!StagesAssumption
<1>7. /\ r \in A!Results /\ (clean => r[1] = manager[model][1])
      /\ stage = "maps" /\ Whole(dense[model]["maps"]) => r = dense[model]["maps"]
      /\ Trusted' /\ (stage # "maps" \/ ~astopped) => Whole(r)
  <2>1. CASE stage = "maps" /\ Whole(dense[model]["maps"])
    <3>1. r = dense[model]["maps"]
      BY <2>1
    <3>2. model <= Len(manager) /\ model \in 1 .. NumModels /\ manager # <<>>
      <4>1. model <= Len(manager) /\ model \in Nat \ {0} /\ Len(manager) <= NumModels
        BY <1>1 DEF MadeInv, Position, KeptInv
      <4>2. manager = <<>> => Len(manager) = 0
        OBVIOUS
      <4> QED BY <1>6, <4>1, <4>2
    <3>3. dense[model]["maps"] \in A!Results /\ (clean => dense[model]["maps"][1] = manager[model][1])
      BY <2>1, <3>2, StepNames DEF Whole, MadeInv, MadeTypes, OnDisk, SameModels
    <3> HIDE DEF r
    <3> QED BY <2>1, <3>1, <3>3
  <2>2. CASE ~(stage = "maps" /\ Whole(dense[model]["maps"]))
    <3>1. r = <<A!Input[1], A!Input[2] /\ ~cut>>
      BY <2>2
    <3>2. A!Input[1] \in 1 .. NumModels /\ A!Input[2] \in BOOLEAN
      BY <1>5, ResultPairs
    <3>3. r \in A!Results /\ r[1] = A!Input[1] /\ r[2] = (A!Input[2] /\ ~cut) /\ r # A!None
      <4> DEFINE m == A!Input[1]
                 b == A!Input[2] /\ ~cut
      <4>1. m \in 1 .. NumModels /\ b \in BOOLEAN
        BY <3>2
      <4>2. r = <<m, b>>
        BY <3>1
      <4>3. r \in A!Results /\ r[1] = m /\ r[2] = b /\ r # A!None
        <5> HIDE DEF m, b, r
        <5>1. <<m, b>> \in A!Results /\ <<m, b>>[1] = m /\ <<m, b>>[2] = b /\ <<m, b>> # A!None
          BY <4>1, ResultPairs
        <5> QED BY <4>2, <5>1
      <4> HIDE DEF r
      <4> QED BY <4>3
    <3> HIDE DEF r
    <3>4. Trusted' /\ (stage # "maps" \/ ~astopped) => A!Input[2] /\ ~cut
      BY <1>1, <1>4, <1>5, <1>6, StepNames DEF Trusted
    <3> QED BY <1>5, <2>2, <3>3, <3>4 DEF Whole
  <2> QED BY <2>1, <2>2
<1> HIDE DEF r
<1>8. /\ \A k \in 1 .. NumModels : \A o \in A!Dense : dense'[k][o] \in A!Results \cup {A!None}
      /\ DenseWhole'
      /\ clean' => \A k \in 1 .. NumModels : \A o \in A!Dense : dense'[k][o] # A!None =>
             manager # <<>> /\ k \in DOMAIN manager /\ dense'[k][o][1] = manager[k][1]
      /\ model \in 1 .. NumModels /\ model <= Len(manager) /\ manager # <<>>
      /\ \A k \in 1 .. NumModels : \A o \in A!Dense :
             dense'[k][o] = IF k = model /\ o = stage THEN r ELSE dense[k][o]
  BY <1>1, <1>3, <1>6, <1>7, ResultPut
<1>9. MadeTypes' /\ OnDisk'
  <2>1. MadeTypes'
    BY <1>1, <1>6, <1>8 DEF MadeInv, MadeTypes
  <2>2. ModelsWhole'
    BY <1>1, <1>6 DEF MadeInv, OnDisk, ModelsWhole
  <2>3. SameModels'
    BY <1>1, <1>8 DEF SameModels
  <2> QED BY <1>8, <2>1, <2>2, <2>3 DEF OnDisk
<1>10. Databased' /\ PlacesOfRun'
  <2>1. stage' \in A!Dense /\ stage' \notin A!Threads /\ stage' # "sparse" /\ stage \notin A!Threads
    BY <1>1, StepNames
  <2> QED BY <1>1, <2>1 DEF MadeInv, Databased, PlacesOfRun, AllOn
<1>11. Position'
  <2>1. r # A!None
    BY <1>7, ResultPairs
  <2>2. \A k \in 1 .. NumModels : k < model' => dense'[k]["mesh"] # A!None
    <3> SUFFICES ASSUME NEW k \in 1 .. NumModels, k < model' PROVE dense'[k]["mesh"] # A!None
      OBVIOUS
    <3>1. k < model \/ (k = model /\ stage = "mesh")
      BY <1>1, <1>6
    <3>2. k < model => dense[k]["mesh"] # A!None
      BY DEF MadeInv, Position
    <3> QED BY <1>8, <2>1, <3>1, <3>2, StepNames
  <2>3. ASSUME stage' # "images", ~astopped
        PROVE  /\ model' = model /\ dense'[model]["images"] # A!None
               /\ stage' \in {"fused", "mesh"} =>
                     dense'[model]["maps"] # A!None /\ (Trusted' => Whole(dense'[model]["maps"]))
               /\ stage' = "mesh" => dense'[model]["fused"] # A!None
    <3>1. /\ dense'[model]["images"] = IF stage = "images" THEN r ELSE dense[model]["images"]
          /\ dense'[model]["maps"] = IF stage = "maps" THEN r ELSE dense[model]["maps"]
          /\ dense'[model]["fused"] = IF stage = "fused" THEN r ELSE dense[model]["fused"]
      BY <1>8, StepNames
    <3>2. /\ stage # "images" => dense[model]["images"] # A!None
          /\ stage \in {"fused", "mesh"} =>
                dense[model]["maps"] # A!None /\ (Trusted => Whole(dense[model]["maps"]))
      BY <1>1 DEF MadeInv, Position
    <3>3. CASE stage = "images"
      BY <1>1, <2>1, <3>1, <3>3, StepNames
    <3>4. CASE stage = "maps"
      BY <1>1, <1>7, <2>1, <2>3, <3>1, <3>2, <3>4, StepNames
    <3>5. CASE stage = "fused"
      BY <1>1, <1>6, <2>1, <3>1, <3>2, <3>5, StepNames
    <3>6. stage # "mesh"
      BY <1>1, <2>3, StepNames
    <3> QED BY <1>1, <3>3, <3>4, <3>5, <3>6, StepNames
  <2>4. /\ at' = "check" /\ manager' = manager /\ astopped' = astopped /\ model <= Len(manager)
        /\ stage' = "images" \/ stage' # "images"
    BY <1>1, <1>8
  <2> QED BY <2>2, <2>3, <2>4 DEF Position, Whole
<1> QED BY <1>9, <1>10, <1>11 DEF MadeInv

(* A later run begins, after one that ended or was killed.                    *)
LEMMA BeginKeeps ==
    ASSUME A!StagesAssumption, MadeInv, AutoInv', KeptInv', A!Rerun \/ A!Kill
    PROVE  MadeInv'
<1>1. /\ at' = "check" /\ stage' = "extraction" /\ model' = 1 /\ manager' = <<>> /\ aasked' = {}
      /\ stopper' = "idle" /\ options' = options /\ database' = database /\ clean' \in BOOLEAN
      /\ clean' => clean /\ A!SameOrder
  BY DEF A!Rerun, A!Kill, A!Begin, A!disk, A!Put, MadeInv, MadeTypes
<1>2. Databased' /\ PlacesOfRun'
  BY <1>1, StepNames DEF Databased, PlacesOfRun
<1>3. Position'
  <2>1. \A k \in 1 .. NumModels : ~(k < 1)
    OBVIOUS
  <2> QED BY <1>1, <2>1, StepNames DEF Position
<1>4. (Trusted' => Trusted) /\ DOMAIN manager' = {}
  BY <1>1 DEF Trusted, AllOn
<1>5. clean' => (\A k \in 1 .. NumModels : \A o \in A!Dense : dense[k][o] = A!None)
                \/ manager = <<>> \/ manager = sparse
  BY <1>1 DEF A!SameOrder, A!Empty
<1>6. CASE UNCHANGED <<dense, sparse>>
  <2>1. MadeTypes'
    BY <1>1, <1>4, <1>6 DEF MadeInv, MadeTypes
  <2>2. ModelsWhole' /\ DenseWhole'
    BY <1>4, <1>6 DEF MadeInv, OnDisk, ModelsWhole, DenseWhole
  <2>3. SameModels'
    BY <1>1, <1>5, <1>6 DEF MadeInv, OnDisk, SameModels
  <2> QED BY <1>2, <1>3, <2>1, <2>2, <2>3 DEF MadeInv, OnDisk
<1>7. CASE at = "write" /\ sparse' = Append(sparse, A!None) /\ UNCHANGED dense /\ ~clean'
  <2>1. \A k \in DOMAIN sparse' : sparse'[k] \in A!Results \cup {A!None}
    BY <1>7, WhatIsAppended DEF MadeInv, MadeTypes, KeptInv
  <2>2. MadeTypes'
    BY <1>1, <1>4, <1>7, <2>1 DEF MadeInv, MadeTypes
  <2>3. OnDisk'
    BY <1>7 DEF OnDisk, ModelsWhole, DenseWhole, SameModels, Trusted
  <2> QED BY <1>2, <1>3, <2>2, <2>3 DEF MadeInv
<1>8. CASE /\ at = "make" /\ stage \in A!Dense /\ dense[model][stage] = A!None /\ A!Put(A!Part)
           /\ UNCHANGED sparse /\ (clean' => stage = "maps")
  <2>1. A!Input \in A!Results /\ (clean => A!Input[1] = manager[model][1])
    BY <1>8, InputType
  <2>2. /\ A!Part \in A!Results /\ A!Part[1] = A!Input[1]
    BY <2>1, ResultPairs DEF A!Part
  <2>3. Trusted' /\ stage # "maps" => FALSE
    BY <1>8 DEF Trusted
  <2>4. /\ \A k \in 1 .. NumModels : \A o \in A!Dense : dense'[k][o] \in A!Results \cup {A!None}
        /\ DenseWhole'
        /\ clean' => \A k \in 1 .. NumModels : \A o \in A!Dense : dense'[k][o] # A!None =>
               manager # <<>> /\ k \in DOMAIN manager /\ dense'[k][o][1] = manager[k][1]
        /\ model \in 1 .. NumModels /\ manager # <<>>
    BY <1>1, <1>8, <2>1, <2>2, <2>3, ResultPut DEF Whole
  <2>5. MadeTypes'
    BY <1>1, <1>4, <1>8, <2>4 DEF MadeInv, MadeTypes
  <2>6. ModelsWhole'
    BY <1>4, <1>8 DEF MadeInv, OnDisk, ModelsWhole
  <2>7. clean' => manager = sparse
    <3>1. clean' => dense[model]["images"] # A!None
      BY <1>8 DEF MadeInv, Position
    <3> QED BY <1>5, <2>4, <3>1, StepNames
  <2>8. SameModels'
    BY <1>1, <1>8, <2>4, <2>7 DEF SameModels
  <2> QED BY <1>2, <1>3, <2>4, <2>5, <2>6, <2>8 DEF MadeInv, OnDisk
<1>9. \/ UNCHANGED <<dense, sparse>>
      \/ at = "write" /\ sparse' = Append(sparse, A!None) /\ UNCHANGED dense /\ ~clean'
      \/ /\ at = "make" /\ stage \in A!Dense /\ dense[model][stage] = A!None /\ A!Put(A!Part)
         /\ UNCHANGED sparse /\ (clean' => stage = "maps")
  BY DEF A!Rerun, A!Kill, A!disk, A!Exists
<1> QED BY <1>6, <1>7, <1>8, <1>9

LEMMA MadeInvariance == ASSUME A!StagesAssumption PROVE A!Spec => []MadeInv
<1>1. A!Init => MadeInv
  BY MadeInit
<1>2. ASSUME MadeInv, [A!Next]_(A!vars) PROVE MadeInv'
  <2>1. AutoInv' /\ KeptInv'
    BY <1>2, AutoInductive, KeptInductive DEF MadeInv
  <2> QED BY <1>2, <2>1, CheckKeeps, ThreadKeeps, MapperKeeps, MakeKeeps, BeginKeeps
          DEF A!Next, A!Run
<1> QED BY <1>1, <1>2, PTL DEF A!Spec

(* A run that nobody stops has made everything of every model, also after     *)
(* runs that were stopped or killed while features, matches or depth maps    *)
(* were made (automatic_reconstruction.cc:228-260, 362-491).                 *)
THEOREM EverythingIsMade == A!StagesAssumption /\ A!Spec => []A!AllMade
<1> SUFFICES ASSUME A!StagesAssumption PROVE A!Spec => []A!AllMade
  OBVIOUS
<1>1. MadeInv => A!AllMade
  <2> SUFFICES ASSUME MadeInv, at = "done", stopper = "idle", clean, AllOn,
                      NEW k \in DOMAIN manager, NEW o \in A!Dense
               PROVE  dense[k][o] = <<manager[k][1], TRUE>>
    BY DEF A!AllMade, AllOn
  <2>1. Trusted /\ ~astopped
    BY DEF Trusted, MadeInv, AutoInv
  <2>2. /\ DOMAIN manager = 1 .. Len(manager) /\ Len(manager) \in Nat /\ NumModels \in Nat
        /\ Len(manager) <= NumModels /\ model > Len(manager) /\ model \in Nat
    BY <2>1, AppendedList DEF MadeInv, KeptInv, Position, A!StagesAssumption
  <2>3. k \in 1 .. NumModels /\ k < model
    BY <2>2
  <2>4. dense[k]["mesh"] # A!None
    BY <2>3 DEF MadeInv, Position
  <2>5. dense[k][o] # A!None /\ Whole(dense[k][o])
    BY <2>1, <2>3, <2>4, StepNames DEF MadeInv, OnDisk, DenseWhole, Whole
  <2>6. manager # <<>>
    <3>1. manager = <<>> => DOMAIN manager = {}
      OBVIOUS
    <3> QED BY <3>1
  <2>7. dense[k][o][1] = manager[k][1] /\ dense[k][o] \in A!Results /\ dense[k][o][2] \in BOOLEAN
    BY <2>3, <2>5, <2>6, ResultPairs DEF MadeInv, MadeTypes, OnDisk, SameModels
  <2>8. dense[k][o][2] = TRUE
    BY <2>5, <2>7 DEF Whole
  <2>9. dense[k][o] = <<dense[k][o][1], dense[k][o][2]>>
    BY <2>7, ResultPairs
  <2> QED BY <2>7, <2>8, <2>9
<1> QED BY <1>1, MadeInvariance, PTL

(* Where the threads are, and what is on the disk is of the models there are. *)
AutoTypes ==
    /\ options \in Options /\ aasked \subseteq A!Threads
    /\ at \in {"check", "set", "start", "wait", "reset", "clear", "make", "write", "done",
              "threw"}
    /\ stopper \in A!Threads \cup {"idle", "none", "returned"}
    /\ model \in 1 .. NumModels + 1 /\ aruns \in 1 .. ARuns
    /\ dense \in [1 .. NumModels -> [A!Dense -> A!Results \cup {A!None}]]

LEMMA ListOf ==
    ASSUME NEW f, NEW T, IsList(f), \A k \in DOMAIN f : f[k] \in T
    PROVE  f \in Seq(T)
<1>1. PICK S : f \in Seq(S)
  BY DEF IsList
<1>2. Len(f) \in Nat /\ f \in [1 .. Len(f) -> S] /\ DOMAIN f = 1 .. Len(f)
  BY <1>1, LenProperties
<1>3. f \in [1 .. Len(f) -> T]
  BY <1>2
<1> QED BY <1>2, <1>3

LEMMA PutTyped ==
    ASSUME MadeInv, MadeTypes', AutoTypes, NEW r, A!Put(r), at = "make", stage \in A!Dense
    PROVE  dense' \in [1 .. NumModels -> [A!Dense -> A!Results \cup {A!None}]]
<1> DEFINE T == A!Results \cup {A!None}
<1>1. model \in 1 .. NumModels
  BY DEF MadeInv, KeptInv
<1>2. dense \in [1 .. NumModels -> [A!Dense -> T]]
  BY DEF AutoTypes
<1>3. dense' = [dense EXCEPT ![model] = [dense[model] EXCEPT ![stage] = r]]
  BY DEF A!Put
<1>4. dense'[model][stage] = r
  BY <1>1, <1>2, <1>3
<1>5. dense'[model][stage] \in T
  BY <1>1 DEF MadeTypes
<1> HIDE DEF T
<1> QED BY <1>1, <1>2, <1>3, <1>4, <1>5 DEF T

LEMMA AutoTyped ==
    ASSUME A!StagesAssumption, MadeInv, MadeInv', AutoTypes, [A!Next]_(A!vars)
    PROVE  AutoTypes'
<1> USE DEF A!Checks, A!Passes, A!At, A!Goto, A!NextStage, A!Making, A!disk, A!threads,
     A!stopping, A!history, A!place
<1>1. /\ NumModels \in Nat /\ ARuns \in Nat \ {0} /\ model \in Nat \ {0}
      /\ Len(manager) \in Nat /\ Len(manager) <= NumModels
      /\ aactive \in A!Threads \cup {"none"} /\ stage \in A!Stages
      /\ at \in {"set", "start", "wait", "reset", "clear"} => stage \in A!Threads
  BY AppendedList DEF A!StagesAssumption, MadeInv, KeptInv, AutoInv
<1>2. MadeTypes'
  BY DEF MadeInv
<1>3. stage \in A!Threads \/ stage = "sparse" => stage # "mesh"
  BY StepNames
<1>4. CASE A!Return \/ A!NextModel \/ A!SkipStage \/ A!EnterStage
  <2>1. UNCHANGED <<options, aasked, stopper, aruns, dense>>
        /\ at' \in {"check", "set", "make", "done"}
    BY <1>4 DEF A!Return, A!NextModel, A!SkipStage, A!EnterStage
  <2>2. model' = model \/ (model' = model + 1 /\ ~A!NothingLeft /\ stage \in A!Dense)
    BY <1>4, StepNames DEF A!Return, A!NextModel, A!SkipStage, A!EnterStage, A!ModelDone
  <2>3. model' \in 1 .. NumModels + 1
    BY <1>1, <2>2 DEF A!NothingLeft, AutoTypes
  <2> QED BY <2>1, <2>3 DEF AutoTypes
<1>5. CASE A!SetActive \/ A!StartThread \/ A!WaitThread \/ A!ResetThread
  BY <1>5 DEF A!SetActive, A!StartThread, A!WaitThread, A!ResetThread, AutoTypes
<1>6. CASE A!ClearActive
  BY <1>1, <1>3, <1>6 DEF A!ClearActive, AutoTypes
<1>7. CASE A!Read \/ A!Map \/ A!Write
  <2>1. UNCHANGED <<options, aasked, stopper, aruns, dense>> /\ at' \in {"check", "write", "threw"}
    BY <1>7 DEF A!Read, A!Map, A!Write
  <2>2. stage = "sparse"
    BY <1>7 DEF A!Read, A!Map, A!Write, MadeInv, PlacesOfRun
  <2>3. model' = model
    BY <1>3, <1>7, <2>2 DEF A!Read, A!Map, A!Write
  <2> QED BY <2>1, <2>3 DEF AutoTypes
<1>8. CASE A!Make
  <2>1. \E r : A!Put(r)
    BY <1>8 DEF A!Make
  <2>2. dense' \in [1 .. NumModels -> [A!Dense -> A!Results \cup {A!None}]]
    BY <1>2, <1>8, <2>1, PutTyped DEF A!Make
  <2>3. UNCHANGED <<options, aasked, stopper, aruns>> /\ at' = "check"
        /\ model' \in {model, model + 1} /\ model <= NumModels
    BY <1>8 DEF A!Make, MadeInv, KeptInv
  <2> QED BY <1>1, <2>2, <2>3 DEF AutoTypes
<1>9. CASE A!Rerun \/ A!Kill
  <2>1. /\ aruns' = aruns + 1 /\ aruns < ARuns /\ at' = "check" /\ model' = 1 /\ aasked' = {}
        /\ stopper' = "idle" /\ UNCHANGED options
    BY <1>9 DEF A!Rerun, A!Kill, A!Begin
  <2>2. dense' = dense \/ (at = "make" /\ stage \in A!Dense /\ A!Put(A!Part))
    BY <1>9 DEF A!Rerun, A!Kill
  <2>3. dense' \in [1 .. NumModels -> [A!Dense -> A!Results \cup {A!None}]]
    BY <1>2, <2>2, PutTyped DEF AutoTypes
  <2> QED BY <1>1, <2>1, <2>3 DEF AutoTypes
<1>10. CASE \/ \E s \in A!Threads : A!ThreadEnds(s)
            \/ A!StopReads \/ A!StopThread \/ A!StopSets \/ UNCHANGED A!vars
  BY <1>1, <1>10 DEF A!ThreadEnds, A!StopReads, A!StopThread, A!StopSets, A!vars, AutoTypes
<1> QED BY <1>4, <1>5, <1>6, <1>7, <1>8, <1>9, <1>10 DEF A!Next, A!Run

(* Run() is at one of its places, with at most one model more than there are,  *)
(* and the workspace has only results of models that the mapper found        *)
(* (automatic_reconstruction.cc:221-500).                                    *)
THEOREM ReconstructionTypeCorrect == A!StagesAssumption /\ A!Spec => []A!TypeOK
<1> SUFFICES ASSUME A!StagesAssumption PROVE A!Spec => []A!TypeOK
  OBVIOUS
<1>1. ASSUME A!Init PROVE AutoTypes
  <2>1. dense \in [1 .. NumModels -> [A!Dense -> A!Results \cup {A!None}]]
    BY <1>1 DEF A!Init, A!Empty
  <2> QED BY <1>1, <2>1 DEF A!Init, A!Begun, AutoTypes, A!StagesAssumption
<1>2. ASSUME MadeInv, AutoTypes PROVE A!TypeOK
  <2>1. sparse \in Seq(A!Results \cup {A!None}) /\ manager \in Seq(A!Results)
    BY <1>2, ListOf DEF MadeInv, KeptInv, MadeTypes
  <2>2. late \in 0 .. 7
    BY <1>2 DEF MadeInv, AutoInv, UnderWay
  <2> QED BY <1>2, <2>1, <2>2 DEF A!TypeOK, MadeInv, KeptInv, MadeTypes, AutoInv, AutoTypes
<1>3. A!Init => AutoTypes
  BY <1>1
<1>4. MadeInv /\ MadeInv' /\ AutoTypes /\ [A!Next]_(A!vars) => AutoTypes'
  BY AutoTyped
<1>5. MadeInv /\ AutoTypes => A!TypeOK
  BY <1>2
<1>6. A!Spec => []MadeInv
  BY MadeInvariance
<1> QED BY <1>3, <1>4, <1>5, <1>6, PTL DEF A!Spec

-----------------------------------------------------------------------------
(* The cameras and rigs of the image reader. *)
Passed == reader.index
Folder(i) == images[i].folder

(* Camera and rig of the image before are of one another, and every camera     *)
(* known by its EXIF data has a rig.                                         *)
RigsPaired ==
    /\ reader.camera.id # 0 <=> reader.rig # 0
    /\ reader.rig # 0 => rigs[reader.rig] = reader.camera.id
    /\ \A m \in reader.models : R!HasRig(m.camera)
    /\ \A i \in R!Added : irows[i].rig \in DOMAIN rigs
    /\ R!RigsFit

(* A folder whose images are shared was seen, and left again unless it is that *)
(* of the image before.                                                      *)
FoldersSeen ==
    \A f \in reader.folders :
        /\ \E j \in 1 .. Passed : Folder(j) = f
        /\ f # reader.previous =>
              \E j, k \in 1 .. Passed : j < k /\ Folder(j) = f /\ Folder(k) # f

(* The size that is kept of the camera before is wrong only where nothing is    *)
(* compared with it, or in a folder that was left.                           *)
SizesKept ==
    /\ \A m \in reader.models : m.model[2] = cameras[m.camera] /\ m.model[1] # "none"
    /\ rwanted.existing = 0 =>
          /\ reader.camera.id # 0 \/ reader.models # {} => reader.previous \in reader.folders
          /\ reader.camera.id # 0 /\ reader.camera.size # cameras[reader.camera.id] =>
                \/ rwanted.image
                \/ ~rwanted.single /\ ~rwanted.folder
                \/ /\ rwanted.folder
                   /\ \E j, k \in 1 .. Passed : j < k /\ Folder(j) = reader.previous
                                                 /\ Folder(k) # reader.previous

(* What the run has done is about images it has passed. *)
RunsPassed ==
    /\ R!Reading => rruns # 0
    /\ \A i \in R!Indices :
          /\ irows[i].run # 0 /\ irows[i].run = rruns => i <= Passed /\ irows[i].by = rwanted
          /\ rruns \in irows[i].again => i <= Passed
          /\ irows[i].camera = 0 => irows[i].again = {}

(* With one camera for all: who the camera before was taken from. *)
NotAgain(a) == \A k \in R!Indices : a <= k => rruns \notin irows[k].again
PlainSince(j) == \A k \in R!Indices : j < k /\ k <= Passed => images[k].model = "none"

OneKept ==
    rwanted.single /\ ~rwanted.folder /\ ~rwanted.image =>
        /\ \A j \in R!Added :
              irows[j].run = rruns /\ (NotAgain(1) \/ (NotAgain(j) /\ PlainSince(j)))
                => irows[j].camera = reader.camera.id
        /\ NotAgain(1) => \A m \in reader.models : m.camera = reader.camera.id
        /\ NotAgain(1) /\ rwanted.existing # 0 => reader.camera.id = rwanted.existing

ReaderInv ==
    /\ R!TypeOK /\ RigsPaired /\ FoldersSeen /\ SizesKept /\ R!CamerasFit
    /\ RunsPassed /\ OneKept /\ R!OneCamera

-----------------------------------------------------------------------------
LEMMA ReaderTypes ==
    ASSUME R!CollectionsAssumption, R!TypeOK
    PROVE  /\ images \in Seq(R!Photo) /\ R!Indices = 1 .. Len(images) /\ Len(images) \in Nat
           /\ \A i \in R!Indices : images[i] \in R!Photo
           /\ Passed \in 0 .. Len(images) /\ Passed \in Nat /\ rruns \in Nat
           /\ rwanted \in R!Wishes /\ rwanted.existing \in Nat
           /\ Len(cameras) \in Nat /\ DOMAIN cameras = 1 .. Len(cameras)
           /\ Len(rigs) \in Nat /\ DOMAIN rigs = 1 .. Len(rigs)
           /\ \A r \in DOMAIN rigs : rigs[r] \in DOMAIN cameras
           /\ \A c \in DOMAIN cameras : cameras[c] \in RSizes
           /\ reader.camera.id \in 0 .. Len(cameras) /\ reader.rig \in 0 .. Len(rigs)
           /\ \A m \in reader.models : m.camera \in DOMAIN cameras
           /\ \A i \in R!Indices : /\ irows[i].camera \in 0 .. Len(cameras)
                                   /\ irows[i].run \in 0 .. rruns
                                   /\ irows[i].again \subseteq 1 .. rruns
<1>1. images \in Seq(R!Photo)
  BY DEF R!CollectionsAssumption, R!TypeOK
<1>2. rwanted \in R!Wishes
  <2>1. rwanted \in ROptions \cup {R!NoOptions}
    BY DEF R!TypeOK
  <2>2. R!NoOptions \in R!Wishes
    BY DEF R!NoOptions, R!Wishes
  <2> QED
    BY <2>1, <2>2 DEF R!CollectionsAssumption
<1>3. rruns \in Nat
  BY DEF R!CollectionsAssumption, R!TypeOK
<1>4. /\ R!Indices = 1 .. Len(images) /\ Len(images) \in Nat
      /\ \A i \in R!Indices : images[i] \in R!Photo
  BY <1>1 DEF R!Indices
<1>5. Passed \in 0 .. Len(images)
  BY DEF R!TypeOK, Passed
<1>6. cameras \in Seq(RSizes) /\ rigs \in Seq(DOMAIN cameras)
  BY DEF R!TypeOK
<1>7. /\ Len(cameras) \in Nat /\ DOMAIN cameras = 1 .. Len(cameras)
      /\ Len(rigs) \in Nat /\ DOMAIN rigs = 1 .. Len(rigs)
      /\ \A r \in DOMAIN rigs : rigs[r] \in DOMAIN cameras
      /\ \A c \in DOMAIN cameras : cameras[c] \in RSizes
  BY <1>6
<1>8. /\ reader.camera.id \in 0 .. Len(cameras) /\ reader.rig \in 0 .. Len(rigs)
      /\ \A m \in reader.models : m.camera \in DOMAIN cameras
  BY DEF R!TypeOK
<1>9. \A i \in R!Indices : /\ irows[i].camera \in 0 .. Len(cameras)
                           /\ irows[i].run \in 0 .. rruns
                           /\ irows[i].again \subseteq 1 .. rruns
  BY DEF R!TypeOK
<1> QED
  BY <1>1, <1>2, <1>3, <1>4, <1>5, <1>7, <1>8, <1>9 DEF R!Wishes

(* A camera has one rig, which is there or is made. *)
LEMMA RigOfIs ==
    ASSUME R!CollectionsAssumption, R!TypeOK, NEW c \in DOMAIN cameras,
           \A r, s \in DOMAIN rigs : rigs[r] = rigs[s] => r = s,
           NEW rs, rs = R!RigsWith(c)
    PROVE  /\ rs \in Seq(DOMAIN cameras) /\ Len(rs) \in Nat /\ DOMAIN rs = 1 .. Len(rs)
           /\ R!RigOf(c) \in DOMAIN rs /\ rs[R!RigOf(c)] = c /\ R!RigOf(c) # 0
           /\ \A r \in DOMAIN rigs : r \in DOMAIN rs /\ rs[r] = rigs[r]
           /\ \A r, s \in DOMAIN rs : rs[r] = rs[s] => r = s
           /\ R!HasRig(c) => rs = rigs
<1>1. /\ rigs \in Seq(DOMAIN cameras) /\ DOMAIN rigs = 1 .. Len(rigs) /\ Len(rigs) \in Nat
      /\ c # 0
  BY ReaderTypes DEF R!TypeOK
<1>2. CASE R!HasRig(c)
  <2>1. rs = rigs
    BY <1>2 DEF R!RigsWith
  <2>2. R!RigOf(c) \in DOMAIN rigs /\ rigs[R!RigOf(c)] = c
    BY <1>2 DEF R!RigOf, R!HasRig
  <2> QED
    BY <1>1, <2>1, <2>2
<1>3. CASE ~R!HasRig(c)
  <2>1. rs = Append(rigs, c) /\ R!RigOf(c) = Len(rigs) + 1
    BY <1>1, <1>3 DEF R!RigsWith, R!RigOf
  <2>2. /\ rs \in Seq(DOMAIN cameras) /\ Len(rs) = Len(rigs) + 1 /\ rs[Len(rigs) + 1] = c
        /\ \A r \in 1 .. Len(rigs) : rs[r] = rigs[r]
    BY <1>1, <2>1
  <2>3. \A r \in DOMAIN rigs : rigs[r] # c
    BY <1>3 DEF R!HasRig
  <2>4. DOMAIN rs = 1 .. Len(rs) /\ Len(rs) \in Nat
    BY <2>2
  <2>5. \A r \in DOMAIN rs : r \in DOMAIN rigs \/ r = Len(rigs) + 1
    BY <1>1, <2>2, <2>4
  <2>6. /\ R!RigOf(c) \in DOMAIN rs /\ rs[R!RigOf(c)] = c /\ R!RigOf(c) # 0
        /\ \A r \in DOMAIN rigs : r \in DOMAIN rs /\ rs[r] = rigs[r]
    BY <1>1, <2>1, <2>2, <2>4
  <2>7. ASSUME NEW r \in DOMAIN rs, NEW s \in DOMAIN rs, rs[r] = rs[s]
        PROVE  r = s
    BY <1>1, <2>2, <2>3, <2>5, <2>7
  <2> QED
    BY <1>3, <2>2, <2>4, <2>6, <2>7
<1> QED
  BY <1>2, <1>3

-----------------------------------------------------------------------------
(* What is said of the irows does not depend on what else is done. *)
LEMMA RowsSaid ==
    ASSUME UNCHANGED <<images, irows>>,
           DOMAIN cameras \subseteq DOMAIN cameras', \A c \in DOMAIN cameras : cameras'[c] = cameras[c],
           \A i \in R!Added : irows[i].camera \in DOMAIN cameras
    PROVE  /\ R!CamerasFit => R!CamerasFit'
           /\ R!OneCamera => R!OneCamera'
           /\ R!Added' = R!Added /\ R!Indices' = R!Indices
<1>1. R!Added' = R!Added /\ R!Indices' = R!Indices /\ images' = images /\ irows' = irows
  BY DEF R!Added, R!Indices
<1>2. R!CamerasFit => R!CamerasFit'
  BY <1>1 DEF R!CamerasFit, R!MetAgain
<1>3. R!OneCamera => R!OneCamera'
  BY <1>1 DEF R!OneCamera
<1> QED
  BY <1>1, <1>2, <1>3

LEMMA RowsCameras ==
    ASSUME R!CollectionsAssumption, R!TypeOK, RigsPaired
    PROVE  \A i \in R!Added : irows[i].camera \in DOMAIN cameras /\ irows[i].camera # 0
<1>1. \A i \in R!Added : irows[i].rig \in DOMAIN rigs /\ rigs[irows[i].rig] = irows[i].camera
  BY DEF RigsPaired, R!RigsFit
<1>2. \A r \in DOMAIN rigs : rigs[r] \in DOMAIN cameras
  BY ReaderTypes
<1>3. \A c \in DOMAIN cameras : c # 0
  BY ReaderTypes
<1> QED
  BY <1>1, <1>2, <1>3

LEMMA Advance ==
    ASSUME NEW CC, NEW GG, NEW MM, NEW FF, NEW PP, NEW n \in Nat,
           NEW r \in [camera : CC, rig : GG, models : MM, folders : FF, previous : PP, index : 0 .. n],
           r.index < n
    PROVE  [r EXCEPT !.index = @ + 1]
              \in [camera : CC, rig : GG, models : MM, folders : FF, previous : PP, index : 0 .. n]
<1>1. r.index + 1 \in 0 .. n
  OBVIOUS
<1> DEFINE I == 0 .. n
           k == r.index + 1
<1>2. [r EXCEPT !.index = k]
         \in [camera : CC, rig : GG, models : MM, folders : FF, previous : PP, index : I]
  <2> HIDE DEF I, k
  <2> QED
    BY <1>1 DEF I, k
<1> QED
  BY <1>2

(* An image is passed over. *)
LEMMA PassInv ==
    ASSUME R!CollectionsAssumption, ReaderInv, R!Reading,
           reader' = [reader EXCEPT !.index = @ + 1],
           UNCHANGED <<images, rwanted, cameras, rigs, irows, rruns>>
    PROVE  ReaderInv'
<1>1. /\ Passed \in Nat /\ Passed < Len(images) /\ Len(images) \in Nat /\ R!Indices = 1 .. Len(images)
  BY ReaderTypes DEF R!Reading, ReaderInv, Passed
<1>2. /\ Passed' = Passed + 1 /\ reader'.camera = reader.camera /\ reader'.rig = reader.rig
      /\ reader'.models = reader.models /\ reader'.folders = reader.folders
      /\ reader'.previous = reader.previous
  BY DEF ReaderInv, R!TypeOK, Passed
<1>3. R!TypeOK'
  <2> DEFINE CC == [id : 0 .. Len(cameras), size : RSizes \cup {0}]
             GG == 0 .. Len(rigs)
             MM == SUBSET [model : Models \X RSizes, camera : DOMAIN cameras]
             FF == SUBSET Folders
             PP == Folders \cup {R!Root}
             n == Len(images)
  <2>1. reader \in [camera : CC, rig : GG, models : MM, folders : FF, previous : PP, index : 0 .. n]
    BY DEF ReaderInv, R!TypeOK
  <2>2. n \in Nat /\ reader.index < n
    BY <1>1 DEF Passed
  <2> HIDE DEF CC, GG, MM, FF, PP, n
  <2>3. reader' \in [camera : CC, rig : GG, models : MM, folders : FF, previous : PP, index : 0 .. n]
    BY <2>1, <2>2, Advance
  <2> USE DEF CC, GG, MM, FF, PP, n
  <2> QED
    BY <2>3 DEF ReaderInv, R!TypeOK, R!Indices
<1>4. /\ \A i \in R!Added : irows[i].camera \in DOMAIN cameras
      /\ DOMAIN cameras' = DOMAIN cameras
  BY RowsCameras DEF ReaderInv
<1>5. R!CamerasFit' /\ R!OneCamera' /\ R!Added' = R!Added /\ R!Indices' = R!Indices
  BY <1>4, RowsSaid DEF ReaderInv
<1>6. RigsPaired'
  BY <1>2, <1>5 DEF ReaderInv, RigsPaired, R!RigsFit, R!HasRig
<1>7. \A i \in 1 .. Passed : i \in 1 .. Passed'
  BY <1>1, <1>2
<1>8. FoldersSeen'
  BY <1>2, <1>7 DEF ReaderInv, FoldersSeen, Folder
<1>9. SizesKept'
  BY <1>2, <1>7 DEF ReaderInv, SizesKept, Folder
<1>10. RunsPassed'
  BY <1>1, <1>2, <1>5 DEF ReaderInv, RunsPassed, R!Reading
<1>11. OneKept'
  <2>1. \A j : PlainSince(j)' => PlainSince(j)
    BY <1>1, <1>2, <1>5 DEF PlainSince
  <2>2. \A j : NotAgain(j)' <=> NotAgain(j)
    BY <1>5 DEF NotAgain
  <2> QED
    BY <1>2, <1>5, <2>1, <2>2 DEF ReaderInv, OneKept
<1> QED
  BY <1>3, <1>5, <1>6, <1>8, <1>9, <1>10, <1>11 DEF ReaderInv

LEMMA SkipInv ==
    ASSUME R!CollectionsAssumption, ReaderInv, R!Skip
    PROVE  ReaderInv'
BY PassInv DEF R!Skip

(* A run begins: the members of the reader are new. *)
LEMMA StartInv ==
    ASSUME R!CollectionsAssumption, ReaderInv, R!Start
    PROVE  ReaderInv'
<1>1. PICK o \in ROptions : (o.existing = 0 \/ o.existing \in DOMAIN cameras) /\ R!Fresh(o)
  BY DEF R!Start
<1> DEFINE e == o.existing
           z == IF e = 0 THEN 0 ELSE cameras[e]
           g == IF e = 0 THEN 0 ELSE R!RigOf(e)
<1>2. /\ rruns < RRuns /\ rruns' = rruns + 1 /\ UNCHANGED <<images, cameras, irows>>
      /\ rwanted' = o /\ rigs' = R!RigsWith(e)
      /\ reader' = [camera |-> [id |-> e, size |-> z], rig |-> g, models |-> {}, folders |-> {},
                    previous |-> R!Root, index |-> 0]
  BY <1>1 DEF R!Start, R!Fresh
<1>3. /\ o \in R!Wishes /\ e \in 0 .. Len(cameras) /\ z \in RSizes \cup {0}
      /\ rruns \in Nat /\ RRuns \in Nat /\ Len(images) \in Nat
      /\ DOMAIN cameras = 1 .. Len(cameras) /\ Len(cameras) \in Nat
  <2>1. \A c \in DOMAIN cameras : cameras[c] \in RSizes
    BY ReaderTypes DEF ReaderInv
  <2> QED
    BY <1>1, <2>1, ReaderTypes DEF ReaderInv, R!CollectionsAssumption
<1>4. /\ rigs' \in Seq(DOMAIN cameras) /\ g \in 0 .. Len(rigs') /\ (e # 0 <=> g # 0)
      /\ \A r \in DOMAIN rigs : r \in DOMAIN rigs' /\ rigs'[r] = rigs[r]
      /\ \A r, s \in DOMAIN rigs' : rigs'[r] = rigs'[s] => r = s
      /\ (g # 0 => rigs'[g] = e)
  <2>1. \A r, s \in DOMAIN rigs : rigs[r] = rigs[s] => r = s
    BY DEF ReaderInv, RigsPaired, R!RigsFit
  <2>2. CASE e = 0
    <3>1. rigs' = rigs /\ g = 0
      BY <1>2, <2>2 DEF R!RigsWith
    <3>2. rigs \in Seq(DOMAIN cameras) /\ Len(rigs) \in Nat
      BY ReaderTypes DEF ReaderInv, R!TypeOK
    <3> QED
      BY <2>1, <2>2, <3>1, <3>2
  <2>3. CASE e # 0
    <3>1. e \in DOMAIN cameras /\ g = R!RigOf(e)
      BY <1>1, <2>3
    <3>2. /\ rigs' \in Seq(DOMAIN cameras) /\ Len(rigs') \in Nat /\ DOMAIN rigs' = 1 .. Len(rigs')
          /\ g \in DOMAIN rigs' /\ rigs'[g] = e /\ g # 0
          /\ \A r \in DOMAIN rigs : r \in DOMAIN rigs' /\ rigs'[r] = rigs[r]
          /\ \A r, s \in DOMAIN rigs' : rigs'[r] = rigs'[s] => r = s
      BY <1>2, <2>1, <3>1, RigOfIs DEF ReaderInv
    <3> QED
      BY <2>3, <3>2
  <2> QED
    BY <2>2, <2>3
<1> HIDE DEF z, g
<1>5. R!TypeOK'
  <2>1. irows' \in [R!Indices' -> [camera : 0 .. Len(cameras'), rig : Nat, complete : BOOLEAN,
                                 run : 0 .. rruns', again : SUBSET (1 .. rruns'), by : R!Wishes]]
    <3>1. 0 .. rruns \subseteq 0 .. rruns' /\ SUBSET (1 .. rruns) \subseteq SUBSET (1 .. rruns')
      BY <1>2, <1>3
    <3>2. [camera : 0 .. Len(cameras), rig : Nat, complete : BOOLEAN,
           run : 0 .. rruns, again : SUBSET (1 .. rruns), by : R!Wishes]
             \subseteq [camera : 0 .. Len(cameras), rig : Nat, complete : BOOLEAN,
                        run : 0 .. rruns', again : SUBSET (1 .. rruns'), by : R!Wishes]
      BY <3>1
    <3> QED
      BY <1>2, <3>2 DEF ReaderInv, R!TypeOK, R!Indices
  <2>2. rruns' \in 0 .. RRuns
    BY <1>2, <1>3
  <2>3. reader' \in [camera : [id : 0 .. Len(cameras'), size : RSizes \cup {0}],
                     rig : 0 .. Len(rigs'),
                     models : SUBSET [model : Models \X RSizes, camera : DOMAIN cameras'],
                     folders : SUBSET Folders, previous : Folders \cup {R!Root},
                     index : 0 .. Len(images')]
    <3>1. /\ [id |-> e, size |-> z] \in [id : 0 .. Len(cameras'), size : RSizes \cup {0}]
          /\ 0 \in 0 .. Len(images')
      BY <1>2, <1>3
    <3> QED
      BY <1>2, <1>4, <3>1
  <2> QED
    BY <1>1, <1>2, <1>4, <2>1, <2>2, <2>3 DEF ReaderInv, R!TypeOK
<1>6. R!CamerasFit' /\ R!OneCamera' /\ R!Added' = R!Added /\ R!Indices' = R!Indices
  BY <1>2, RowsCameras, RowsSaid DEF ReaderInv
<1>7. RigsPaired'
  <2>1. \A i \in R!Added' : irows'[i].rig \in DOMAIN rigs' /\ irows'[i].rig # 0
                             /\ rigs'[irows'[i].rig] = irows'[i].camera
    BY <1>2, <1>4, <1>6 DEF ReaderInv, RigsPaired, R!RigsFit
  <2> QED
    BY <1>2, <1>4, <2>1 DEF RigsPaired, R!RigsFit
<1>8. FoldersSeen'
  BY <1>2 DEF FoldersSeen
<1>9. SizesKept'
  BY <1>2 DEF SizesKept
<1>10. \A i \in R!Indices : irows[i].run \in 0 .. rruns /\ irows[i].again \subseteq 1 .. rruns
  BY ReaderTypes DEF ReaderInv
<1>11. \A i \in R!Indices : irows[i].run # rruns' /\ rruns' \notin irows[i].again
  BY <1>2, <1>3, <1>10
<1>12. RunsPassed'
  <2>1. \A i \in R!Indices : irows[i].camera = 0 => irows[i].again = {}
    BY DEF ReaderInv, RunsPassed
  <2>2. rruns' # 0
    BY <1>2, <1>3
  <2> QED
    BY <1>2, <1>6, <1>11, <2>1, <2>2 DEF RunsPassed
<1>13. OneKept'
  <2>1. \A j \in R!Added' : irows'[j].run # rruns'
    BY <1>2, <1>6, <1>11 DEF R!Added
  <2>2. reader'.models = {} /\ reader'.camera.id = rwanted'.existing
    BY <1>2
  <2> QED
    BY <2>1, <2>2 DEF OneKept
<1> QED
  BY <1>5, <1>6, <1>7, <1>8, <1>9, <1>12, <1>13 DEF ReaderInv

-----------------------------------------------------------------------------
(* An image goes on: the folder it is from becomes that of the image before. *)
LEMMA TakenFolders ==
    ASSUME R!CollectionsAssumption, ReaderInv, R!Reading, images' = images,
           reader'.folders = reader.folders \cup {R!Image.folder},
           reader'.previous = R!Image.folder, reader'.index = reader.index + 1
    PROVE  FoldersSeen' /\ reader'.previous \in reader'.folders
<1>1. PICK n : n = Passed + 1
  OBVIOUS
<1>2. /\ Passed \in Nat /\ n \in Nat /\ Passed' = n /\ n = Passed + 1 /\ R!Image.folder = images[n].folder
  BY <1>1, ReaderTypes DEF ReaderInv, Passed, R!Image
<1>3. \A i : Folder(i)' = images[i].folder /\ Folder(i) = images[i].folder
  BY DEF Folder
<1>4. /\ n \in 1 .. Passed'
      /\ \A i \in 1 .. Passed : i \in 1 .. Passed' /\ i < n
  BY <1>2
<1>5. ASSUME NEW f \in reader'.folders
      PROVE  /\ \E j \in 1 .. Passed' : images[j].folder = f
             /\ f # reader'.previous =>
                   \E j, k \in 1 .. Passed' : j < k /\ images[j].folder = f /\ images[k].folder # f
  <2>1. CASE f = images[n].folder
    BY <1>2, <1>4, <2>1
  <2>2. CASE f # images[n].folder
    <3>1. f \in reader.folders
      BY <1>2, <2>2
    <3>2. PICK j \in 1 .. Passed : images[j].folder = f
      BY <3>1 DEF ReaderInv, FoldersSeen, Folder
    <3> QED
      BY <1>4, <2>2, <3>2
  <2> QED
    BY <2>1, <2>2
<1> QED
  BY <1>3, <1>5 DEF FoldersSeen

LEMMA TakenTypes ==
    ASSUME R!CollectionsAssumption, ReaderInv, R!Reading, images' = images,
           NEW c \in [id : 0 .. Len(cameras'), size : RSizes \cup {0}],
           NEW g \in 0 .. Len(rigs'),
           NEW ms, ms \subseteq [model : Models \X RSizes, camera : DOMAIN cameras'],
           reader' = [camera |-> c, rig |-> g, models |-> ms,
                      folders |-> reader.folders \cup {R!Image.folder},
                      previous |-> R!Image.folder, index |-> reader.index + 1]
    PROVE  reader' \in [camera : [id : 0 .. Len(cameras'), size : RSizes \cup {0}],
                        rig : 0 .. Len(rigs'),
                        models : SUBSET [model : Models \X RSizes, camera : DOMAIN cameras'],
                        folders : SUBSET Folders, previous : Folders \cup {R!Root},
                        index : 0 .. Len(images')]
<1>1. Passed \in Nat /\ Passed < Len(images) /\ Len(images) \in Nat
  BY ReaderTypes DEF ReaderInv, Passed, R!Reading
<1>2. reader.index + 1 \in 0 .. Len(images')
  BY <1>1 DEF Passed
<1>3. R!Image.folder \in Folders
  <2>1. Passed + 1 \in R!Indices
    BY <1>1, ReaderTypes DEF ReaderInv
  <2>2. images[Passed + 1] \in R!Photo
    BY <2>1, ReaderTypes DEF ReaderInv
  <2> QED
    BY <2>2 DEF R!Photo, R!Image, Passed
<1>4. reader.folders \cup {R!Image.folder} \in SUBSET Folders
  BY <1>3 DEF ReaderInv, R!TypeOK
<1> QED
  BY <1>2, <1>3, <1>4

(* An image that is there without features brings its camera back. *)
LEMMA AgainInv ==
    ASSUME R!CollectionsAssumption, ReaderInv, R!ReadAgain
    PROVE  ReaderInv'
<1> DEFINE c == R!Row.camera
           z == cameras[c]
<1>1. /\ R!Reading /\ c # 0 /\ UNCHANGED <<images, rwanted, cameras, rruns>>
  BY DEF R!ReadAgain
<1>2. /\ Passed \in Nat /\ Passed < Len(images) /\ Len(images) \in Nat /\ R!Indices = 1 .. Len(images)
      /\ Passed + 1 \in R!Indices /\ c = irows[Passed + 1].camera /\ rruns \in Nat
  BY <1>1, ReaderTypes DEF R!Reading, ReaderInv, Passed, R!Row
<1>3. CASE reader' = [reader EXCEPT !.index = @ + 1] /\ UNCHANGED <<irows, rigs>>
  BY <1>1, <1>3, PassInv
<1>4. CASE /\ R!Succeed([id |-> c, size |-> z], R!RigOf(c), reader.models)
           /\ rigs' = R!RigsWith(c)
           /\ irows' \in {R!ReadBy(FALSE), R!ReadBy(TRUE)}
  <2>1. reader' = [camera |-> [id |-> c, size |-> z], rig |-> R!RigOf(c), models |-> reader.models,
                   folders |-> reader.folders \cup {R!Image.folder},
                   previous |-> R!Image.folder, index |-> reader.index + 1]
    BY <1>4 DEF R!Succeed
  <2>2. c \in DOMAIN cameras /\ z \in RSizes
    BY <1>1, <1>2, ReaderTypes DEF ReaderInv
  <2>3. /\ rigs' \in Seq(DOMAIN cameras) /\ Len(rigs') \in Nat /\ DOMAIN rigs' = 1 .. Len(rigs')
        /\ R!RigOf(c) \in DOMAIN rigs' /\ rigs'[R!RigOf(c)] = c /\ R!RigOf(c) # 0
        /\ \A r \in DOMAIN rigs : r \in DOMAIN rigs' /\ rigs'[r] = rigs[r]
        /\ \A r, s \in DOMAIN rigs' : rigs'[r] = rigs'[s] => r = s
    BY <1>4, <2>2, RigOfIs DEF ReaderInv, RigsPaired, R!RigsFit
  <2> HIDE DEF c, z
  <2>19. PICK w \in BOOLEAN : irows' = R!ReadBy(w)
    BY <1>4
  <2> DEFINE row == [irows[Passed + 1] EXCEPT !.again = @ \cup {rruns}, !.complete = w]
  <2>4. /\ row = [irows[Passed + 1] EXCEPT !.again = @ \cup {rruns}, !.complete = w]
        /\ irows' = [irows EXCEPT ![Passed + 1] = row]
    BY <2>19 DEF R!ReadBy, R!Row, Passed
  <2> HIDE DEF row
  <2>5. /\ DOMAIN irows' = R!Indices /\ R!Indices' = R!Indices
        /\ \A i \in R!Indices :
              /\ irows'[i].run = irows[i].run /\ irows'[i].camera = irows[i].camera
              /\ irows'[i].rig = irows[i].rig /\ irows'[i].by = irows[i].by
              /\ irows'[i].again = IF i = Passed + 1 THEN irows[i].again \cup {rruns} ELSE irows[i].again
    <3>1. /\ DOMAIN irows = R!Indices /\ irows[Passed + 1] \in
                [camera : 0 .. Len(cameras), rig : Nat, complete : BOOLEAN,
                 run : 0 .. rruns, again : SUBSET (1 .. rruns), by : R!Wishes]
      BY <1>2 DEF ReaderInv, R!TypeOK
    <3>2. /\ row.run = irows[Passed + 1].run /\ row.camera = irows[Passed + 1].camera
          /\ row.rig = irows[Passed + 1].rig /\ row.by = irows[Passed + 1].by
          /\ row.again = irows[Passed + 1].again \cup {rruns}
      BY <2>4, <3>1
    <3>3. /\ DOMAIN irows' = R!Indices /\ R!Indices' = R!Indices
          /\ \A i \in R!Indices : irows'[i] = IF i = Passed + 1 THEN row ELSE irows[i]
      BY <1>1, <2>4, <3>1 DEF R!Indices
    <3> QED
      BY <3>2, <3>3
  <2>6. R!Added' = R!Added
    BY <2>5 DEF R!Added
  <2>7. rruns \in 1 .. rruns /\ \A i \in R!Added : i \in R!Indices
    BY <1>1, <1>2 DEF ReaderInv, RunsPassed, R!Added
  <2>17. /\ \A i \in R!Added' : i \in R!Added
         /\ \A i \in R!Added : /\ irows'[i].run = irows[i].run /\ irows'[i].camera = irows[i].camera
                               /\ irows'[i].rig = irows[i].rig /\ irows'[i].by = irows[i].by
    BY <2>5, <2>6, <2>7
  <2>18. /\ \A i \in R!Added : irows[i].rig \in DOMAIN rigs /\ irows[i].rig # 0
                               /\ rigs[irows[i].rig] = irows[i].camera
         /\ R!CamerasFit /\ R!OneCamera /\ RunsPassed
    BY DEF ReaderInv, RigsPaired, R!RigsFit
  <2>8. R!TypeOK'
    <3>1. [id |-> c, size |-> z] \in [id : 0 .. Len(cameras'), size : RSizes \cup {0}]
      BY <1>1, <2>2, ReaderTypes DEF ReaderInv
    <3>2. R!RigOf(c) \in 0 .. Len(rigs')
      BY <2>3
    <3>3. reader.models \subseteq [model : Models \X RSizes, camera : DOMAIN cameras']
      BY <1>1 DEF ReaderInv, R!TypeOK
    <3>4. reader' \in [camera : [id : 0 .. Len(cameras'), size : RSizes \cup {0}],
                       rig : 0 .. Len(rigs'),
                       models : SUBSET [model : Models \X RSizes, camera : DOMAIN cameras'],
                       folders : SUBSET Folders, previous : Folders \cup {R!Root},
                       index : 0 .. Len(images')]
      BY <1>1, <2>1, <3>1, <3>2, <3>3, TakenTypes
    <3>5. irows' \in [R!Indices' -> [camera : 0 .. Len(cameras'), rig : Nat, complete : BOOLEAN,
                                    run : 0 .. rruns', again : SUBSET (1 .. rruns'), by : R!Wishes]]
      <4> DEFINE Row == [camera : 0 .. Len(cameras), rig : Nat, complete : BOOLEAN,
                         run : 0 .. rruns, again : SUBSET (1 .. rruns), by : R!Wishes]
      <4>1. irows \in [R!Indices -> Row]
        BY DEF ReaderInv, R!TypeOK
      <4>2. \A r \in Row : [r EXCEPT !.again = @ \cup {rruns}, !.complete = w] \in Row
        BY <2>7
      <4> HIDE DEF Row
      <4>5. irows[Passed + 1] \in Row
        BY <1>2, <4>1
      <4>6. row \in Row
        BY <2>4, <4>2, <4>5
      <4>4. irows' \in [R!Indices -> Row]
        BY <1>2, <2>4, <4>1, <4>6
      <4> QED
        BY <1>1, <2>5, <4>4 DEF Row
    <3> QED
      BY <1>1, <2>3, <3>4, <3>5 DEF ReaderInv, R!TypeOK
  <2>9. RigsPaired'
    <3>1. \A i \in R!Added' : irows'[i].rig \in DOMAIN rigs' /\ irows'[i].rig # 0
                               /\ rigs'[irows'[i].rig] = irows'[i].camera
      BY <2>3, <2>17, <2>18
    <3>2. \A d : R!HasRig(d) => R!HasRig(d)'
      BY <2>3 DEF R!HasRig
    <3>3. reader'.camera.id = c /\ reader'.rig = R!RigOf(c) /\ reader'.models = reader.models
      BY <2>1
    <3>4. \A m \in reader.models : R!HasRig(m.camera)
      BY DEF ReaderInv, RigsPaired
    <3>5. \A m \in reader'.models : R!HasRig(m.camera)'
      BY <3>2, <3>3, <3>4
    <3>6. c # 0
      BY <2>2, ReaderTypes DEF ReaderInv
    <3> QED
      BY <2>3, <3>1, <3>3, <3>5, <3>6 DEF RigsPaired, R!RigsFit
  <2>10. FoldersSeen' /\ reader'.previous \in reader'.folders
    BY <1>1, <2>1, TakenFolders
  <2>11. SizesKept'
    BY <1>1, <2>1, <2>10 DEF ReaderInv, SizesKept, z
  <2>12. R!CamerasFit'
    BY <1>1, <2>5, <2>17, <2>18 DEF R!CamerasFit, R!MetAgain
  <2>13. /\ Passed' = Passed + 1 /\ \A i \in R!Indices : i <= Passed => i < Passed + 1 /\ i <= Passed + 1
    BY <1>2, <2>1 DEF Passed
  <2>14. RunsPassed'
    <3>1. /\ \A i \in R!Indices :
                /\ irows'[i].run # 0 /\ irows'[i].run = rruns => i <= Passed + 1 /\ irows'[i].by = rwanted
                /\ rruns \in irows'[i].again => i <= Passed + 1
                /\ irows'[i].camera = 0 => irows'[i].again = {}
      <4>1. \A i \in R!Indices :
               /\ irows[i].run # 0 /\ irows[i].run = rruns => i <= Passed /\ irows[i].by = rwanted
               /\ rruns \in irows[i].again => i <= Passed
               /\ irows[i].camera = 0 => irows[i].again = {}
        BY <2>18 DEF RunsPassed
      <4>2. Passed + 1 <= Passed + 1 /\ irows[Passed + 1].camera # 0
        BY <1>1, <1>2
      <4> QED
        BY <2>5, <2>13, <4>1, <4>2
    <3>2. rruns # 0
      BY <2>7
    <3> QED
      BY <1>1, <2>5, <2>13, <3>1, <3>2 DEF RunsPassed
  <2>15. OneKept'
    <3>1. \A a \in R!Indices : a <= Passed + 1 => ~NotAgain(a)'
      BY <1>1, <1>2, <2>5 DEF NotAgain
    <3>2. \A j \in R!Added' : irows'[j].run = rruns' => j <= Passed + 1 /\ j \in R!Indices
      BY <1>1, <2>5, <2>6, <2>7, <2>13, <2>14 DEF RunsPassed, R!Added
    <3>3. 1 \in R!Indices /\ 1 <= Passed + 1
      BY <1>2
    <3> QED
      BY <3>1, <3>2, <3>3 DEF OneKept
  <2>16. R!OneCamera'
    <3>1. ASSUME NEW i \in R!Added, NEW k \in R!Indices, k < i
          PROVE  irows[i].run \in irows'[k].again <=> irows[i].run \in irows[k].again
      <4>1. CASE k = Passed + 1 /\ irows[i].run = rruns
        <5>1. i <= Passed
          BY <2>7, <4>1 DEF ReaderInv, RunsPassed, R!Added
        <5> QED
          BY <1>2, <2>7, <3>1, <4>1, <5>1
      <4>2. CASE ~(k = Passed + 1 /\ irows[i].run = rruns)
        BY <2>5, <4>2
      <4> QED
        BY <4>1, <4>2
    <3> QED
      BY <1>1, <2>5, <2>17, <2>18, <3>1 DEF R!OneCamera
  <2> QED
    BY <2>8, <2>9, <2>10, <2>11, <2>12, <2>14, <2>15, <2>16 DEF ReaderInv
<1> QED
  BY <1>3, <1>4 DEF R!ReadAgain

-----------------------------------------------------------------------------
(* The camera and the rig that a new image would get as they are. *)
LEMMA BaseIs ==
    ASSUME R!CollectionsAssumption, ReaderInv
    PROVE  /\ R!Base = [id |-> R!Base.id, size |-> R!Base.size]
           /\ R!Base.id \in 0 .. Len(cameras) /\ R!Base.size \in RSizes \cup {0}
           /\ R!BaseRig \in 0 .. Len(rigs) /\ (R!Base.id # 0 <=> R!BaseRig # 0)
           /\ R!BaseRig # 0 => rigs[R!BaseRig] = R!Base.id
           /\ R!Known => /\ cameras[R!Base.id] = R!Image.size /\ R!Base.id # 0
                         /\ \E m \in reader.models : m.camera = R!Base.id
                         /\ R!Image.model # "none" /\ R!Base.size = R!Image.size
           /\ ~R!Known => R!Base = reader.camera /\ R!BaseRig = reader.rig
<1>1. /\ \A m \in reader.models : /\ m.camera \in DOMAIN cameras /\ cameras[m.camera] \in RSizes
                                  /\ m.camera \in 0 .. Len(cameras) /\ m.camera # 0
      /\ DOMAIN rigs = 1 .. Len(rigs) /\ Len(rigs) \in Nat
      /\ reader.camera.id \in 0 .. Len(cameras) /\ reader.rig \in 0 .. Len(rigs)
      /\ reader.camera \in [id : 0 .. Len(cameras), size : RSizes \cup {0}]
  BY ReaderTypes DEF ReaderInv, R!TypeOK
<1>2. CASE R!Known
  <2>1. PICK m : m \in reader.models /\ m.model = R!Model
                 /\ m = CHOOSE n \in reader.models : n.model = R!Model
    BY <1>2 DEF R!Known
  <2>2. R!Base = [id |-> m.camera, size |-> cameras[m.camera]]
    BY <1>2, <2>1 DEF R!Base
  <2>3. R!Base.id = m.camera /\ R!Base.size = cameras[m.camera]
    BY <2>2
  <2>4. R!HasRig(m.camera) /\ m.model[2] = cameras[m.camera] /\ m.model[1] # "none"
    BY <2>1 DEF ReaderInv, RigsPaired, SizesKept
  <2>5. R!BaseRig \in DOMAIN rigs /\ rigs[R!BaseRig] = m.camera
    BY <1>2, <2>3, <2>4 DEF R!BaseRig, R!RigOf, R!HasRig
  <2>6. m.model[1] = R!Image.model /\ m.model[2] = R!Image.size
    BY <2>1 DEF R!Model
  <2>7. R!BaseRig \in 0 .. Len(rigs) /\ R!BaseRig # 0
    BY <1>1, <2>5
  <2> QED
    BY <1>1, <1>2, <2>1, <2>2, <2>3, <2>4, <2>5, <2>6, <2>7
<1>3. CASE ~R!Known
  <2>1. R!Base = reader.camera /\ R!BaseRig = reader.rig
    BY <1>3 DEF R!Base, R!BaseRig
  <2>2. /\ reader.camera.id # 0 <=> reader.rig # 0
        /\ reader.rig # 0 => rigs[reader.rig] = reader.camera.id
    BY DEF ReaderInv, RigsPaired
  <2>3. reader.camera = [id |-> reader.camera.id, size |-> reader.camera.size]
        /\ reader.camera.size \in RSizes \cup {0}
    BY <1>1
  <2> QED
    BY <1>1, <1>3, <2>1, <2>2, <2>3
<1> QED
  BY <1>2, <1>3

(* A new image goes on with a camera, and is written or lost. *)
LEMMA TakenInv ==
    ASSUME R!CollectionsAssumption, ReaderInv, R!Reading, R!Row.camera = 0,
           UNCHANGED <<images, rwanted, rruns>>,
           cameras' \in Seq(RSizes), Len(cameras) <= Len(cameras'),
           \A d \in DOMAIN cameras : cameras'[d] = cameras[d],
           rigs' \in Seq(DOMAIN cameras'),
           \A r \in DOMAIN rigs : r \in DOMAIN rigs' /\ rigs'[r] = rigs[r],
           \A r, s \in DOMAIN rigs' : rigs'[r] = rigs'[s] => r = s,
           NEW c \in DOMAIN cameras', NEW z \in RSizes \cup {0},
           NEW g \in DOMAIN rigs', rigs'[g] = c,
           NEW ms, ms \subseteq [model : Models \X RSizes, camera : DOMAIN cameras'],
           \A m \in ms : /\ \E r \in DOMAIN rigs' : rigs'[r] = m.camera
                         /\ m.model[2] = cameras'[m.camera] /\ m.model[1] # "none",
           reader' = [camera |-> [id |-> c, size |-> z], rig |-> g, models |-> ms,
                      folders |-> reader.folders \cup {R!Image.folder},
                      previous |-> R!Image.folder, index |-> reader.index + 1],
           irows' \in {irows, R!Written(c, g)},
           rwanted.existing = 0 /\ ~(rwanted.folder /\ R!MetAgain(Passed + 1)) => cameras'[c] = R!Image.size,
           rwanted.existing = 0 /\ z # cameras'[c] =>
              \/ rwanted.image
              \/ ~rwanted.single /\ ~rwanted.folder
              \/ /\ rwanted.folder
                 /\ \E j, k \in 1 .. Passed : j < k /\ Folder(j) = R!Image.folder
                                               /\ Folder(k) # R!Image.folder,
           rwanted.single /\ ~rwanted.folder /\ ~rwanted.image =>
              /\ \A j \in R!Added :
                    irows[j].run = rruns /\
                    (NotAgain(1) \/ (NotAgain(j) /\ PlainSince(j) /\ R!Image.model = "none"))
                       => irows[j].camera = c
              /\ NotAgain(1) => \A m \in ms : m.camera = c
              /\ NotAgain(1) /\ rwanted.existing # 0 => c = rwanted.existing
    PROVE  ReaderInv'
<1>1. /\ Passed \in Nat /\ Passed < Len(images) /\ Len(images) \in Nat /\ R!Indices = 1 .. Len(images)
      /\ Passed + 1 \in R!Indices /\ irows[Passed + 1].camera = 0 /\ rruns \in Nat /\ rwanted \in R!Wishes
      /\ R!Image = images[Passed + 1]
  <2>1. /\ Passed \in Nat /\ Len(images) \in Nat /\ R!Indices = 1 .. Len(images)
        /\ rruns \in Nat /\ rwanted \in R!Wishes
    BY ReaderTypes DEF ReaderInv
  <2>2. Passed < Len(images) /\ irows[Passed + 1].camera = 0 /\ R!Image = images[Passed + 1]
    BY DEF R!Reading, Passed, R!Row, R!Image
  <2> QED
    BY <2>1, <2>2
<1>2. /\ Len(cameras') \in Nat /\ DOMAIN cameras' = 1 .. Len(cameras')
      /\ Len(cameras) \in Nat /\ DOMAIN cameras = 1 .. Len(cameras)
      /\ Len(rigs') \in Nat /\ DOMAIN rigs' = 1 .. Len(rigs') /\ c # 0 /\ g # 0
      /\ c \in 0 .. Len(cameras') /\ g \in 0 .. Len(rigs') /\ g \in Nat
  BY ReaderTypes DEF ReaderInv
<1>3. /\ R!CamerasFit /\ R!OneCamera /\ RunsPassed /\ RigsPaired /\ OneKept /\ R!TypeOK
      /\ rruns # 0 /\ irows[Passed + 1].again = {}
  BY <1>1 DEF ReaderInv, RunsPassed
<1>4. PICK new, n :
        /\ new \in BOOLEAN /\ n = Passed + 1 /\ R!Indices' = R!Indices
        /\ irows' = IF new THEN [irows EXCEPT ![n] =
                                   [camera |-> c, rig |-> g, complete |-> TRUE, run |-> rruns,
                                    again |-> {}, by |-> rwanted]]
                   ELSE irows
  BY <1>1 DEF R!Written, Passed, R!Indices
<1>5. /\ DOMAIN irows' = R!Indices
      /\ \A i \in R!Indices :
            /\ irows'[i].again = irows[i].again
            /\ new /\ i = n => irows'[i].run = rruns /\ irows'[i].camera = c /\ irows'[i].rig = g
                               /\ irows'[i].by = rwanted
            /\ ~(new /\ i = n) => irows'[i] = irows[i]
  BY <1>1, <1>3, <1>4 DEF R!TypeOK
<1>6. /\ \A i \in R!Added : /\ i \in R!Indices /\ i # n /\ irows'[i] = irows[i]
                            /\ irows[i].camera \in DOMAIN cameras
                            /\ irows[i].rig \in DOMAIN rigs /\ irows[i].rig # 0
                            /\ rigs[irows[i].rig] = irows[i].camera
      /\ \A i : i \in R!Added' <=> i \in R!Added \/ (new /\ i = n)
  <2>1. \A i \in R!Added : /\ irows[i].camera \in DOMAIN cameras /\ irows[i].camera # 0
                           /\ i \in R!Indices
    BY <1>3, RowsCameras DEF R!Added
  <2>2. \A i \in R!Added : i # n
    BY <1>1, <1>4, <2>1
  <2>3. \A i \in R!Added : irows[i].rig \in DOMAIN rigs /\ irows[i].rig # 0
                            /\ rigs[irows[i].rig] = irows[i].camera
    BY <1>3 DEF RigsPaired, R!RigsFit
  <2>4. R!Added' = {i \in R!Indices : irows'[i].run # 0}
    BY <1>4 DEF R!Added
  <2>5. R!Added = {i \in R!Indices : irows[i].run # 0} /\ n \in R!Indices
    BY <1>1, <1>4 DEF R!Added
  <2> QED
    BY <1>3, <1>5, <2>1, <2>2, <2>3, <2>4, <2>5
<1>7. /\ Passed' = n /\ reader'.camera.id = c /\ reader'.camera.size = z /\ reader'.rig = g
      /\ reader'.models = ms /\ reader'.previous = R!Image.folder
  BY <1>4 DEF Passed
<1>8. R!TypeOK'
  <2>1. [id |-> c, size |-> z] \in [id : 0 .. Len(cameras'), size : RSizes \cup {0}]
    BY <1>2
  <2>2. reader' \in [camera : [id : 0 .. Len(cameras'), size : RSizes \cup {0}],
                     rig : 0 .. Len(rigs'),
                     models : SUBSET [model : Models \X RSizes, camera : DOMAIN cameras'],
                     folders : SUBSET Folders, previous : Folders \cup {R!Root},
                     index : 0 .. Len(images')]
    BY <1>2, <2>1, TakenTypes
  <2>3. irows' \in [R!Indices' -> [camera : 0 .. Len(cameras'), rig : Nat, complete : BOOLEAN,
                                  run : 0 .. rruns', again : SUBSET (1 .. rruns'), by : R!Wishes]]
    <3> DEFINE Row(m) == [camera : 0 .. m, rig : Nat, complete : BOOLEAN,
                          run : 0 .. rruns, again : SUBSET (1 .. rruns), by : R!Wishes]
    <3>1. irows \in [R!Indices -> Row(Len(cameras))]
      BY <1>3 DEF R!TypeOK
    <3>2. 0 .. Len(cameras) \subseteq 0 .. Len(cameras')
      BY <1>2
    <3>3. Row(Len(cameras)) \subseteq Row(Len(cameras'))
      BY <3>2
    <3>4. [camera |-> c, rig |-> g, complete |-> TRUE, run |-> rruns, again |-> {}, by |-> rwanted]
             \in Row(Len(cameras'))
      BY <1>1, <1>2
    <3> HIDE DEF Row
    <3>5. irows' \in [R!Indices -> Row(Len(cameras'))]
      BY <1>4, <3>1, <3>3, <3>4
    <3> QED
      BY <1>4, <3>5 DEF Row
  <2> QED
    BY <1>3, <2>2, <2>3 DEF R!TypeOK
<1>9. RigsPaired'
  <2>1. \A i \in R!Added' : irows'[i].rig \in DOMAIN rigs' /\ irows'[i].rig # 0
                             /\ rigs'[irows'[i].rig] = irows'[i].camera
    BY <1>1, <1>2, <1>4, <1>5, <1>6
  <2>2. \A m \in reader'.models : R!HasRig(m.camera)'
    BY <1>7 DEF R!HasRig
  <2> QED
    BY <1>2, <1>7, <2>1, <2>2 DEF RigsPaired, R!RigsFit
<1>10. FoldersSeen' /\ reader'.previous \in reader'.folders
  BY TakenFolders
<1>11. SizesKept'
  <2>1. \A j \in 1 .. Passed : j \in 1 .. Passed'
    BY <1>1, <1>4, <1>7
  <2>2. \A j : Folder(j)' = images[j].folder /\ Folder(j) = images[j].folder
    BY DEF Folder
  <2>3. \A m \in ms : m.model[2] = cameras'[m.camera] /\ m.model[1] # "none"
    OBVIOUS
  <2>4. rwanted.existing = 0 /\ z # cameras'[c] =>
           \/ rwanted.image
           \/ ~rwanted.single /\ ~rwanted.folder
           \/ /\ rwanted.folder
              /\ \E j, k \in 1 .. Passed' : j < k /\ images[j].folder = R!Image.folder
                                             /\ images[k].folder # R!Image.folder
    BY <2>1, <2>2
  <2>5. rwanted' = rwanted /\ images' = images
    OBVIOUS
  <2> QED
    BY ONLY <1>7, <1>10, <2>2, <2>3, <2>4, <2>5 DEF SizesKept
<1>12. R!CamerasFit'
  <2>1. \A i : R!MetAgain(i)' <=> R!MetAgain(i)
    BY <1>4 DEF R!MetAgain
  <2>2. ASSUME NEW i \in R!Added', irows'[i].by.existing = 0,
               ~(irows'[i].by.folder /\ R!MetAgain(i)')
        PROVE  cameras'[irows'[i].camera] = images[i].size
    <3>1. CASE i \in R!Added
      BY <1>3, <1>6, <2>1, <2>2, <3>1 DEF R!CamerasFit
    <3>2. CASE new /\ i = n
      BY <1>1, <1>4, <1>5, <2>1, <2>2, <3>2
    <3> QED
      BY <1>6, <3>1, <3>2
  <2> QED
    BY <2>2 DEF R!CamerasFit
<1>13. RunsPassed'
  <2>1. ASSUME NEW i \in R!Indices
        PROVE  /\ irows'[i].run # 0 /\ irows'[i].run = rruns => i <= n /\ irows'[i].by = rwanted
               /\ rruns \in irows'[i].again => i <= n
               /\ irows'[i].camera = 0 => irows'[i].again = {}
    <3>1. /\ irows[i].run # 0 /\ irows[i].run = rruns => i <= Passed /\ irows[i].by = rwanted
          /\ rruns \in irows[i].again => i <= Passed
          /\ irows[i].camera = 0 => irows[i].again = {}
      BY <1>3 DEF RunsPassed
    <3>2. i \in Nat /\ (i <= Passed => i <= n) /\ n <= n
      BY <1>1, <1>4
    <3> QED
      BY <1>2, <1>5, <3>1, <3>2
  <2> QED
    BY <1>3, <1>4, <1>7, <2>1 DEF RunsPassed
<1>14. \A j \in R!Added : irows[j].run = rruns => j <= Passed /\ irows[j].by = rwanted /\ j < n /\ j \in Nat
  BY <1>1, <1>3, <1>4 DEF RunsPassed, R!Added
<1>15. \A a : NotAgain(a)' <=> NotAgain(a)
  BY <1>4, <1>5 DEF NotAgain
<1>16. \A j \in R!Added : irows[j].run = rruns /\ PlainSince(j)' =>
                             PlainSince(j) /\ R!Image.model = "none"
  BY <1>1, <1>4, <1>7, <1>14 DEF PlainSince
<1>17. OneKept'
  <2>1. ASSUME rwanted.single /\ ~rwanted.folder /\ ~rwanted.image, NEW j \in R!Added',
               irows'[j].run = rruns, NotAgain(1)' \/ (NotAgain(j)' /\ PlainSince(j)')
        PROVE  irows'[j].camera = c
    <3>1. CASE new /\ j = n
      BY <1>1, <1>4, <1>5, <3>1
    <3>2. CASE j \in R!Added
      BY <1>6, <1>15, <1>16, <2>1, <3>2
    <3> QED
      BY <1>6, <3>1, <3>2
  <2> QED
    BY <1>7, <1>15, <2>1 DEF OneKept
<1>18. R!OneCamera'
  <2> DEFINE Again(r, i, j) == \E k \in R!Indices : j <= k /\ k < i /\ r \in irows[k].again
             Plain(i, j) == \A k \in R!Indices : j < k /\ k <= i => images[k].model = "none"
  <2>1. \A r, i, j : (\E k \in R!Indices' : j <= k /\ k < i /\ r \in irows'[k].again) <=> Again(r, i, j)
    BY <1>4, <1>5
  <2>2. ASSUME NEW i \in R!Added', irows'[i].by.single, ~irows'[i].by.folder, ~irows'[i].by.image
        PROVE  /\ \A j \in R!Added' :
                     j < i /\ irows'[j].run = irows'[i].run
                        /\ (Again(irows'[i].run, i, 1) => ~Again(irows'[i].run, i, j) /\ Plain(i, j))
                       => irows'[j].camera = irows'[i].camera
               /\ irows'[i].by.existing # 0 /\ ~Again(irows'[i].run, i, 1) =>
                     irows'[i].camera = irows'[i].by.existing
    <3>1. CASE i \in R!Added
      <4>1. /\ irows'[i] = irows[i] /\ i \in Nat
            /\ \A j \in R!Added :
                     j < i /\ irows[j].run = irows[i].run
                        /\ (Again(irows[i].run, i, 1) => ~Again(irows[i].run, i, j) /\ Plain(i, j))
                       => irows[j].camera = irows[i].camera
            /\ irows[i].by.existing # 0 /\ ~Again(irows[i].run, i, 1) =>
                     irows[i].camera = irows[i].by.existing
        <5>1. irows'[i] = irows[i] /\ i \in R!Added /\ i \in Nat
          BY <1>1, <1>6, <3>1
        <5>2. irows[i].by.single /\ ~irows[i].by.folder /\ ~irows[i].by.image
          BY <2>2, <5>1
        <5>3. R!OneCamera
          BY <1>3
        <5> QED
          BY ONLY <5>1, <5>2, <5>3 DEF R!OneCamera
      <4>2. ASSUME NEW j \in R!Added', j < i, irows'[j].run = irows[i].run
            PROVE  j \in R!Added
        <5>1. CASE new /\ j = n
          <6>1. irows[i].run = rruns
            BY <1>1, <1>4, <1>5, <4>2, <5>1
          <6>2. i < n
            BY <1>14, <3>1, <6>1
          <6> QED
            BY <1>1, <1>4, <4>1, <4>2, <5>1, <6>2
        <5> QED
          BY <1>6, <5>1
      <4> HIDE DEF Again, Plain
      <4>3. \A j \in R!Added : irows'[j] = irows[j]
        BY <1>6
      <4> QED
        BY ONLY <4>1, <4>2, <4>3
    <3>2. CASE new /\ i = n
      <4>1. /\ irows'[i].run = rruns /\ irows'[i].camera = c /\ irows'[i].by = rwanted
            /\ rwanted.single /\ ~rwanted.folder /\ ~rwanted.image
        BY <1>1, <1>4, <1>5, <2>2, <3>2
      <4>2. \A j : ~Again(rruns, n, j) => NotAgain(j)
        <5>1. \A k \in R!Indices : rruns \in irows[k].again => k < n
          BY <1>1, <1>3, <1>4 DEF RunsPassed
        <5> QED
          BY <5>1 DEF NotAgain
      <4>3. ASSUME NEW j \in R!Added', j < i, irows'[j].run = rruns, Plain(n, j)
            PROVE  PlainSince(j) /\ R!Image.model = "none"
        BY <1>1, <1>4, <3>2, <4>3 DEF PlainSince
      <4>4. ASSUME NEW j \in R!Added', j < i, irows'[j].run = rruns
            PROVE  j \in R!Added /\ irows'[j] = irows[j]
        <5>1. j # n
          BY <1>1, <1>4, <3>2, <4>4
        <5> QED
          BY <1>6, <5>1
      <4> HIDE DEF Again, Plain
      <4>5. ASSUME NEW j \in R!Added', j < i, irows'[j].run = rruns,
                   Again(rruns, n, 1) => ~Again(rruns, n, j) /\ Plain(n, j)
            PROVE  irows'[j].camera = c
        <5>1. NotAgain(1) \/ (NotAgain(j) /\ PlainSince(j) /\ R!Image.model = "none")
          BY <4>2, <4>3, <4>5
        <5> QED
          BY <4>1, <4>4, <4>5, <5>1
      <4> QED
        BY <3>2, <4>1, <4>2, <4>5
    <3> QED
      BY <1>6, <3>1, <3>2
  <2>3. images' = images /\ R!Indices' = R!Indices
    BY <1>4
  <2>4. ASSUME NEW i \in R!Added', irows'[i].by.single, ~irows'[i].by.folder, ~irows'[i].by.image,
               NEW j \in R!Added', j < i, irows'[j].run = irows'[i].run,
               (\E k \in R!Indices' : 1 <= k /\ k < i /\ irows'[i].run \in irows'[k].again)
                 => /\ ~(\E k \in R!Indices' : j <= k /\ k < i /\ irows'[i].run \in irows'[k].again)
                    /\ \A k \in R!Indices' : j < k /\ k <= i => images'[k].model = "none"
        PROVE  irows'[j].camera = irows'[i].camera
    <3>1. /\ Again(irows'[i].run, i, 1) <=>
               \E k \in R!Indices' : 1 <= k /\ k < i /\ irows'[i].run \in irows'[k].again
          /\ Again(irows'[i].run, i, j) <=>
               \E k \in R!Indices' : j <= k /\ k < i /\ irows'[i].run \in irows'[k].again
      BY ONLY <2>1
    <3>2. Plain(i, j) <=> \A k \in R!Indices' : j < k /\ k <= i => images'[k].model = "none"
      BY ONLY <2>3
    <3> HIDE DEF Again, Plain
    <3>3. Again(irows'[i].run, i, 1) => ~Again(irows'[i].run, i, j) /\ Plain(i, j)
      BY ONLY <2>4, <3>1, <3>2
    <3> QED
      BY ONLY <2>2, <2>4, <3>3
  <2>5. ASSUME NEW i \in R!Added', irows'[i].by.single, ~irows'[i].by.folder, ~irows'[i].by.image,
               irows'[i].by.existing # 0,
               ~(\E k \in R!Indices' : 1 <= k /\ k < i /\ irows'[i].run \in irows'[k].again)
        PROVE  irows'[i].camera = irows'[i].by.existing
    <3>1. ~Again(irows'[i].run, i, 1)
      BY ONLY <2>1, <2>5
    <3> HIDE DEF Again, Plain
    <3> QED
      BY ONLY <2>2, <2>5, <3>1
  <2> HIDE DEF Again, Plain
  <2> QED
    BY ONLY <2>4, <2>5 DEF R!OneCamera
<1> QED
  BY <1>8, <1>9, <1>10, <1>11, <1>12, <1>13, <1>17, <1>18 DEF ReaderInv

(* What the image that is read next is. *)
LEMMA ImageIs ==
    ASSUME R!CollectionsAssumption, ReaderInv, R!Reading
    PROVE  /\ Passed \in Nat /\ Passed < Len(images) /\ Len(images) \in Nat /\ Passed + 1 \in R!Indices
           /\ R!Image = images[Passed + 1] /\ R!Image.folder = Folder(Passed + 1)
           /\ R!Image.size \in RSizes /\ R!Image.folder \in Folders /\ R!Image.model \in Models
           /\ rwanted \in R!Wishes /\ rruns \in Nat
<1>1. /\ Passed \in Nat /\ Len(images) \in Nat /\ R!Indices = 1 .. Len(images)
      /\ rwanted \in R!Wishes /\ rruns \in Nat
      /\ \A i \in R!Indices : images[i] \in R!Photo
  BY ReaderTypes DEF ReaderInv
<1>2. Passed < Len(images) /\ R!Image = images[Passed + 1]
  BY DEF R!Reading, Passed, R!Image
<1>3. Passed + 1 \in R!Indices
  BY <1>1, <1>2
<1>4. images[Passed + 1] \in R!Photo
  BY <1>1, <1>3
<1> QED
  BY <1>1, <1>2, <1>3, <1>4 DEF R!Photo, Folder

(* The camera before, or one known by the EXIF data, is taken as it is. *)
LEMMA SameCameraInv ==
    ASSUME R!CollectionsAssumption, ReaderInv, R!Reading, R!Row.camera = 0,
           UNCHANGED <<images, rwanted, cameras, rigs, rruns>>,
           ~(reader.camera.id # 0 /\ R!Shares /\ reader.camera.size # R!Image.size),
           ~R!NeedsCamera,
           R!Succeed(R!Base, R!BaseRig, reader.models),
           irows' \in {irows, R!Written(R!Base.id, R!BaseRig)}
    PROVE  ReaderInv'
<1> DEFINE b == R!Base.id
           z == R!Base.size
           g == R!BaseRig
<1>1. /\ Passed \in Nat /\ Passed + 1 \in R!Indices /\ R!Image.folder = Folder(Passed + 1)
      /\ R!Image = images[Passed + 1]
  BY ImageIs
<1>2. /\ R!Base = [id |-> b, size |-> z]
      /\ b \in 0 .. Len(cameras) /\ z \in RSizes \cup {0} /\ g \in 0 .. Len(rigs)
      /\ (b # 0 <=> g # 0) /\ (g # 0 => rigs[g] = b)
  BY BaseIs
<1>3. /\ R!Known => /\ cameras[b] = R!Image.size /\ \E m \in reader.models : m.camera = b
                    /\ R!Image.model # "none" /\ z = R!Image.size
      /\ ~R!Known => b = reader.camera.id /\ z = reader.camera.size /\ R!Base = reader.camera
  BY BaseIs
<1>4. /\ b # 0 /\ ~rwanted.image
      /\ ~rwanted.single /\ ~rwanted.folder /\ rwanted.existing = 0 => R!Known
      /\ rwanted.folder => R!Image.folder \in reader.folders
  BY DEF R!NeedsCamera
<1>5. ~R!Known /\ R!Shares => reader.camera.size = R!Image.size
  BY <1>3, <1>4
<1>6. R!TypeOK /\ FoldersSeen /\ SizesKept /\ OneKept /\ RigsPaired
  BY DEF ReaderInv
<1>7. \/ R!Image.folder \notin reader.folders
      \/ R!Image.folder = reader.previous
      \/ \E j, k \in 1 .. Passed : j < k /\ Folder(j) = R!Image.folder /\ Folder(k) # R!Image.folder
  BY <1>6 DEF FoldersSeen
<1>8. (\E j, k \in 1 .. Passed : j < k /\ Folder(j) = R!Image.folder /\ Folder(k) # R!Image.folder)
         => R!MetAgain(Passed + 1)
  <2>1. R!Indices = 1 .. Len(images) /\ Len(images) \in Nat /\ Passed < Len(images)
    BY ImageIs, ReaderTypes DEF ReaderInv
  <2>2. \A j \in 1 .. Passed : j \in R!Indices /\ j < Passed + 1
    BY <1>1, <2>1
  <2> QED
    BY <1>1, <2>2 DEF R!MetAgain, Folder
<1>9. /\ b \in DOMAIN cameras' /\ g \in DOMAIN rigs' /\ rigs'[g] = b
      /\ cameras' \in Seq(RSizes) /\ Len(cameras) <= Len(cameras')
      /\ rigs' \in Seq(DOMAIN cameras')
      /\ \A r \in DOMAIN rigs : r \in DOMAIN rigs' /\ rigs'[r] = rigs[r]
      /\ \A r, s \in DOMAIN rigs' : rigs'[r] = rigs'[s] => r = s
      /\ reader.models \subseteq [model : Models \X RSizes, camera : DOMAIN cameras']
  <2>1. /\ DOMAIN cameras = 1 .. Len(cameras) /\ DOMAIN rigs = 1 .. Len(rigs)
        /\ Len(cameras) \in Nat /\ Len(rigs) \in Nat
    BY <1>6, ReaderTypes
  <2>2. b \in DOMAIN cameras /\ g \in DOMAIN rigs /\ rigs[g] = b /\ Len(cameras) <= Len(cameras)
    BY <1>2, <1>4, <2>1
  <2> QED
    BY <1>6, <2>2 DEF R!TypeOK, RigsPaired, R!RigsFit
<1>10. \A m \in reader.models : /\ \E r \in DOMAIN rigs' : rigs'[r] = m.camera
                                /\ m.model[2] = cameras'[m.camera] /\ m.model[1] # "none"
  BY <1>6 DEF RigsPaired, SizesKept, R!HasRig
<1>11. reader' = [camera |-> [id |-> b, size |-> z], rig |-> g, models |-> reader.models,
                  folders |-> reader.folders \cup {R!Image.folder},
                  previous |-> R!Image.folder, index |-> reader.index + 1]
  BY <1>2 DEF R!Succeed
<1> HIDE DEF b, z, g
<1>12. ASSUME rwanted.existing = 0, ~R!Known, z # cameras[b]
       PROVE  \/ rwanted.image
              \/ ~rwanted.single /\ ~rwanted.folder
              \/ /\ rwanted.folder
                 /\ \E j, k \in 1 .. Passed : j < k /\ Folder(j) = reader.previous
                                               /\ Folder(k) # reader.previous
  BY <1>3, <1>4, <1>6, <1>12 DEF SizesKept
<1>13. rwanted.existing = 0 /\ ~(rwanted.folder /\ R!MetAgain(Passed + 1)) => cameras'[b] = R!Image.size
  <2>1. SUFFICES ASSUME rwanted.existing = 0, ~(rwanted.folder /\ R!MetAgain(Passed + 1)), ~R!Known
                 PROVE  cameras[b] = R!Image.size
    BY <1>3
  <2>2. rwanted.folder => R!Image.folder = reader.previous
    BY <1>4, <1>7, <1>8, <2>1
  <2>3. R!Shares
    BY <1>4, <2>1, <2>2 DEF R!Shares
  <2>4. z = R!Image.size
    BY <1>3, <1>5, <2>1, <2>3
  <2>5. ~rwanted.folder => rwanted.single
    BY <1>4, <2>1
  <2>6. z = cameras[b]
    BY <1>4, <1>8, <1>12, <2>1, <2>2, <2>5
  <2> QED
    BY <2>4, <2>6
<1>14. rwanted.existing = 0 /\ z # cameras'[b] =>
          \/ rwanted.image
          \/ ~rwanted.single /\ ~rwanted.folder
          \/ /\ rwanted.folder
             /\ \E j, k \in 1 .. Passed : j < k /\ Folder(j) = R!Image.folder
                                           /\ Folder(k) # R!Image.folder
  BY <1>3, <1>4, <1>7, <1>12
<1>15. rwanted.single /\ ~rwanted.folder /\ ~rwanted.image =>
         /\ \A j \in R!Added :
               irows[j].run = rruns /\
               (NotAgain(1) \/ (NotAgain(j) /\ PlainSince(j) /\ R!Image.model = "none"))
                  => irows[j].camera = b
         /\ NotAgain(1) => \A m \in reader.models : m.camera = b
         /\ NotAgain(1) /\ rwanted.existing # 0 => b = rwanted.existing
  <2>1. SUFFICES ASSUME rwanted.single, ~rwanted.folder, ~rwanted.image
                 PROVE  /\ \A j \in R!Added :
                             irows[j].run = rruns /\
                             (NotAgain(1) \/ (NotAgain(j) /\ PlainSince(j) /\ R!Image.model = "none"))
                                => irows[j].camera = b
                        /\ NotAgain(1) => \A m \in reader.models : m.camera = b
                        /\ NotAgain(1) /\ rwanted.existing # 0 => b = rwanted.existing
    OBVIOUS
  <2>2. /\ \A j \in R!Added :
              irows[j].run = rruns /\ (NotAgain(1) \/ (NotAgain(j) /\ PlainSince(j)))
                => irows[j].camera = reader.camera.id
        /\ NotAgain(1) => \A m \in reader.models : m.camera = reader.camera.id
        /\ NotAgain(1) /\ rwanted.existing # 0 => reader.camera.id = rwanted.existing
    BY <1>6, <2>1 DEF OneKept
  <2>3. NotAgain(1) \/ R!Image.model = "none" => b = reader.camera.id
    BY <1>3, <2>2
  <2> QED
    BY <2>2, <2>3
<1>16. z \in RSizes \cup {0} /\ irows' \in {irows, R!Written(b, g)}
  BY <1>2 DEF b, g
<1>17. reader.models \subseteq reader.models
  OBVIOUS
<1> QED
  BY <1>9, <1>10, <1>11, <1>13, <1>14, <1>15, <1>16, TakenInv

(* The parameters of a new camera are refused: its size is kept with the id of  *)
(* the camera before.                                                        *)
LEMMA RefusedInv ==
    ASSUME R!CollectionsAssumption, ReaderInv, R!Reading,
           UNCHANGED <<images, rwanted, cameras, rigs, irows, rruns>>, R!NeedsCamera,
           reader' = [reader EXCEPT !.index = @ + 1, !.rig = R!BaseRig,
                         !.camera = [id |-> R!Base.id, size |-> R!Image.size]]
    PROVE  ReaderInv'
<1> DEFINE b == R!Base.id
           x == R!Image.size
           g == R!BaseRig
<1>1. /\ Passed \in Nat /\ Passed < Len(images) /\ Len(images) \in Nat /\ Passed + 1 \in R!Indices
      /\ R!Image.folder = Folder(Passed + 1) /\ x \in RSizes
  BY ImageIs
<1>2. PICK n : n = Passed + 1
  OBVIOUS
<1>3. /\ b \in 0 .. Len(cameras) /\ g \in 0 .. Len(rigs)
      /\ (b # 0 <=> g # 0) /\ (g # 0 => rigs[g] = b)
      /\ R!Known => cameras[b] = x /\ b # 0 /\ reader.models # {}
      /\ ~R!Known => b = reader.camera.id
  BY BaseIs
<1>4. R!TypeOK /\ FoldersSeen /\ SizesKept /\ OneKept /\ RigsPaired /\ RunsPassed
  BY DEF ReaderInv
<1>5. reader' = [camera |-> [id |-> b, size |-> x], rig |-> g, models |-> reader.models,
                 folders |-> reader.folders, previous |-> reader.previous, index |-> n]
  <2>1. reader = [camera |-> reader.camera, rig |-> reader.rig, models |-> reader.models,
                  folders |-> reader.folders, previous |-> reader.previous,
                  index |-> reader.index]
    BY <1>4 DEF R!TypeOK
  <2> HIDE DEF b, x, g
  <2> QED
    BY <1>2, <2>1 DEF Passed, b, x, g
<1>0. UNCHANGED <<images, rwanted, cameras, rigs, irows, rruns>>
  OBVIOUS
<1>6. b # 0 => \/ rwanted.image
               \/ ~rwanted.single /\ ~rwanted.folder
               \/ rwanted.folder /\ R!Image.folder \notin reader.folders
  BY DEF R!NeedsCamera
<1> HIDE DEF b, x, g
<1>7. /\ Passed' = n /\ n \in 0 .. Len(images) /\ n \in 1 .. n
      /\ \A i \in 1 .. Passed : i \in 1 .. n /\ i < n
      /\ \A i \in Nat : i <= Passed => i <= n
  BY <1>1, <1>2, <1>5 DEF Passed
<1>8. R!TypeOK'
  <2>1. [id |-> b, size |-> x] \in [id : 0 .. Len(cameras), size : RSizes \cup {0}]
    BY <1>1, <1>3
  <2>2. reader' \in [camera : [id : 0 .. Len(cameras), size : RSizes \cup {0}],
                     rig : 0 .. Len(rigs),
                     models : SUBSET [model : Models \X RSizes, camera : DOMAIN cameras],
                     folders : SUBSET Folders, previous : Folders \cup {R!Root},
                     index : 0 .. Len(images)]
    BY <1>3, <1>4, <1>5, <1>7, <2>1 DEF R!TypeOK
  <2> QED
    BY <1>4, <2>2 DEF R!TypeOK, R!Indices
<1>9. /\ \A i \in R!Added : irows[i].camera \in DOMAIN cameras
      /\ DOMAIN cameras' = DOMAIN cameras
  BY RowsCameras DEF ReaderInv
<1>10. R!CamerasFit' /\ R!OneCamera' /\ R!Added' = R!Added /\ R!Indices' = R!Indices
  BY <1>9, RowsSaid DEF ReaderInv
<1>11. RigsPaired'
  <2>1. /\ reader'.camera.id = b /\ reader'.rig = g /\ reader'.models = reader.models
        /\ irows' = irows /\ rigs' = rigs
    BY ONLY <1>5, <1>0
  <2>2. (b # 0 <=> g # 0) /\ (g # 0 => rigs[g] = b)
    BY <1>3
  <2>3. RigsPaired /\ R!Added' = R!Added
    BY <1>4, <1>10
  <2> QED
    BY ONLY <2>1, <2>2, <2>3 DEF RigsPaired, R!RigsFit, R!HasRig
<1>12. FoldersSeen'
  BY <1>4, <1>5, <1>7 DEF FoldersSeen, Folder
<1>13. SizesKept'
  <2>1. ASSUME rwanted.existing = 0, b # 0 \/ reader.models # {}
        PROVE  reader.previous \in reader.folders
    BY <1>3, <1>4, <2>1 DEF SizesKept
  <2>2. ASSUME rwanted.existing = 0, b # 0, x # cameras[b]
        PROVE  \/ rwanted.image
               \/ ~rwanted.single /\ ~rwanted.folder
               \/ /\ rwanted.folder
                  /\ \E j, k \in 1 .. n : j < k /\ Folder(j) = reader.previous
                                                /\ Folder(k) # reader.previous
    <3>1. SUFFICES ASSUME rwanted.folder, R!Image.folder \notin reader.folders
                   PROVE  \E j, k \in 1 .. n : j < k /\ Folder(j) = reader.previous
                                                    /\ Folder(k) # reader.previous
      BY <1>6, <2>2
    <3>2. reader.previous \in reader.folders
      BY <2>1, <2>2
    <3>3. PICK j \in 1 .. Passed : Folder(j) = reader.previous
      BY <1>4, <3>2 DEF FoldersSeen
    <3>4. Folder(n) # reader.previous
      BY <1>1, <1>2, <3>1, <3>2
    <3> QED
      BY <1>7, <3>3, <3>4
  <2>3. \A m \in reader.models : m.model[2] = cameras[m.camera] /\ m.model[1] # "none"
    BY <1>4 DEF SizesKept
  <2>4. \A i : Folder(i)' = Folder(i)
    BY DEF Folder
  <2>5. /\ rwanted' = rwanted /\ cameras' = cameras /\ Passed' = n /\ reader'.models = reader.models
        /\ reader'.camera.id = b /\ reader'.camera.size = x
        /\ reader'.folders = reader.folders /\ reader'.previous = reader.previous
    BY ONLY <1>5, <1>7, <1>0
  <2> QED
    BY ONLY <2>1, <2>2, <2>3, <2>4, <2>5 DEF SizesKept
<1>14. RunsPassed'
  <2>1. \A i \in R!Indices : i \in Nat
    BY ReaderTypes DEF ReaderInv
  <2>2. rruns # 0
    BY <1>4 DEF RunsPassed
  <2> QED
    BY <1>4, <1>7, <1>10, <2>1, <2>2 DEF RunsPassed
<1>15. OneKept'
  <2>1. \A i \in R!Indices : i \in Nat
    BY ReaderTypes DEF ReaderInv
  <2>2. \A j : PlainSince(j)' => PlainSince(j)
    BY <1>7, <1>10, <2>1 DEF PlainSince
  <2>3. \A j : NotAgain(j)' <=> NotAgain(j)
    BY <1>10 DEF NotAgain
  <2>4. rwanted.single /\ ~rwanted.folder /\ ~rwanted.image => b = reader.camera.id
    BY <1>3, <1>6
  <2>5. reader'.camera.id = b /\ reader'.models = reader.models
    BY ONLY <1>5
  <2> QED
    BY <1>4, <1>10, <2>2, <2>3, <2>4, <2>5 DEF OneKept
<1> QED
  BY <1>8, <1>10, <1>11, <1>12, <1>13, <1>14, <1>15 DEF ReaderInv

(* A new camera is made, with a rig of its own. *)
LEMMA NewCameraInv ==
    ASSUME R!CollectionsAssumption, ReaderInv, R!Reading, R!Row.camera = 0,
           UNCHANGED <<images, rwanted, rruns>>, R!NeedsCamera,
           NEW c, c = Len(cameras) + 1,
           cameras' = Append(cameras, R!Image.size), rigs' = Append(rigs, c),
           irows' \in {irows, R!Written(c, Len(rigs) + 1)},
           R!Succeed([id |-> c, size |-> R!Image.size], Len(rigs) + 1,
                     IF R!Image.model = "none" THEN reader.models
                     ELSE {m \in reader.models : m.model # R!Model}
                             \cup {[model |-> R!Model, camera |-> c]})
    PROVE  ReaderInv'
<1> DEFINE x == R!Image.size
           g == Len(rigs) + 1
           new == [model |-> R!Model, camera |-> c]
           ms == IF R!Image.model = "none" THEN reader.models
                 ELSE {m \in reader.models : m.model # R!Model} \cup {new}
<1>1. x \in RSizes /\ R!Image.model \in Models /\ R!Image = images[Passed + 1]
  BY ImageIs
<1>2. R!TypeOK /\ SizesKept /\ OneKept /\ RigsPaired
  BY DEF ReaderInv
<1>3. /\ cameras \in Seq(RSizes) /\ Len(cameras) \in Nat /\ DOMAIN cameras = 1 .. Len(cameras)
      /\ rigs \in Seq(DOMAIN cameras) /\ Len(rigs) \in Nat /\ DOMAIN rigs = 1 .. Len(rigs)
      /\ \A r \in DOMAIN rigs : rigs[r] \in DOMAIN cameras
      /\ \A m \in reader.models : m.camera \in DOMAIN cameras
  BY <1>2, ReaderTypes DEF R!TypeOK
<1>4. /\ cameras' \in Seq(RSizes) /\ Len(cameras') = c /\ DOMAIN cameras' = 1 .. c
      /\ cameras'[c] = x /\ c \in DOMAIN cameras' /\ c \notin DOMAIN cameras /\ c # 0
      /\ Len(cameras) <= Len(cameras')
      /\ \A d \in DOMAIN cameras : cameras'[d] = cameras[d] /\ d \in DOMAIN cameras' /\ d # 0
  BY <1>1, <1>3
<1>5. /\ rigs' \in Seq(DOMAIN cameras') /\ DOMAIN rigs' = 1 .. g /\ rigs'[g] = c
      /\ g \in DOMAIN rigs'
      /\ \A r \in DOMAIN rigs : r \in DOMAIN rigs' /\ rigs'[r] = rigs[r]
      /\ \A r \in DOMAIN rigs' : r = g \/ r \in DOMAIN rigs
  <2>1. rigs \in Seq(DOMAIN cameras')
    BY <1>3, <1>4
  <2> QED
    BY <1>3, <1>4, <2>1
<1>6. ASSUME NEW r \in DOMAIN rigs', NEW s \in DOMAIN rigs', rigs'[r] = rigs'[s]
      PROVE  r = s
  <2>1. \A p, q \in DOMAIN rigs : rigs[p] = rigs[q] => p = q
    BY <1>2 DEF RigsPaired, R!RigsFit
  <2>2. \A p \in DOMAIN rigs : rigs'[p] # c
    BY <1>3, <1>4, <1>5
  <2> QED
    BY <1>5, <1>6, <2>1, <2>2
<1>7. new.model = R!Model /\ new.camera = c
  OBVIOUS
<1>8. R!Model = <<R!Image.model, x>>
  BY DEF R!Model
<1>9. R!Model \in Models \X RSizes /\ R!Model[2] = x /\ R!Model[1] = R!Image.model
  BY <1>1, <1>8
<1>10. new \in [model : Models \X RSizes, camera : DOMAIN cameras']
  BY <1>4, <1>9
<1> HIDE DEF new
<1>11. \A m \in ms : m \in reader.models \/ (m = new /\ R!Image.model # "none")
  OBVIOUS
<1>12. reader.models \subseteq [model : Models \X RSizes, camera : DOMAIN cameras']
  <2>1. reader.models \subseteq [model : Models \X RSizes, camera : DOMAIN cameras]
    BY <1>2 DEF R!TypeOK
  <2>2. DOMAIN cameras \subseteq DOMAIN cameras'
    BY <1>4
  <2> QED
    BY <2>1, <2>2
<1>13. reader' = [camera |-> [id |-> c, size |-> x], rig |-> g, models |-> ms,
                  folders |-> reader.folders \cup {R!Image.folder},
                  previous |-> R!Image.folder, index |-> reader.index + 1]
  BY DEF R!Succeed, new
<1> HIDE DEF ms
<1>14. ms \subseteq [model : Models \X RSizes, camera : DOMAIN cameras']
  BY <1>10, <1>11, <1>12
<1>15. ASSUME NEW m \in ms
       PROVE  /\ \E r \in DOMAIN rigs' : rigs'[r] = m.camera
              /\ m.model[2] = cameras'[m.camera] /\ m.model[1] # "none"
  <2>1. CASE m \in reader.models
    <3>1. /\ m.camera \in DOMAIN cameras /\ \E r \in DOMAIN rigs : rigs[r] = m.camera
          /\ m.model[2] = cameras[m.camera] /\ m.model[1] # "none"
      BY <1>2, <1>3, <2>1 DEF RigsPaired, SizesKept, R!HasRig
    <3> QED
      BY <1>4, <1>5, <3>1
  <2>2. CASE m = new /\ R!Image.model # "none"
    BY <1>4, <1>5, <1>7, <1>9, <2>2
  <2> QED
    BY <1>11, <2>1, <2>2
<1>16. rwanted.single /\ ~rwanted.folder /\ ~rwanted.image =>
         /\ \A j \in R!Added :
               irows[j].run = rruns /\
               (NotAgain(1) \/ (NotAgain(j) /\ PlainSince(j) /\ R!Image.model = "none"))
                  => irows[j].camera = c
         /\ NotAgain(1) => \A m \in ms : m.camera = c
         /\ NotAgain(1) /\ rwanted.existing # 0 => c = rwanted.existing
  <2>1. SUFFICES ASSUME rwanted.single, ~rwanted.folder, ~rwanted.image
                 PROVE  /\ \A j \in R!Added :
                             irows[j].run = rruns /\
                             (NotAgain(1) \/ (NotAgain(j) /\ PlainSince(j) /\ R!Image.model = "none"))
                                => irows[j].camera = c
                        /\ NotAgain(1) => \A m \in ms : m.camera = c
                        /\ NotAgain(1) /\ rwanted.existing # 0 => c = rwanted.existing
    OBVIOUS
  <2>2. R!Base.id = 0
    BY <2>1 DEF R!NeedsCamera
  <2>3. reader.camera.id = 0
    BY <2>2, BaseIs
  <2>4. /\ \A j \in R!Added :
              irows[j].run = rruns /\ (NotAgain(1) \/ (NotAgain(j) /\ PlainSince(j)))
                => irows[j].camera = 0
        /\ NotAgain(1) => \A m \in reader.models : m.camera = 0
        /\ NotAgain(1) /\ rwanted.existing # 0 => 0 = rwanted.existing
    BY <1>2, <2>1, <2>3 DEF OneKept
  <2>5. \A j \in R!Added : irows[j].camera # 0
    BY <1>2, RowsCameras
  <2>6. \A m \in reader.models : m.camera # 0
    BY <1>3, <1>4
  <2> QED
    BY <1>7, <1>11, <2>4, <2>5, <2>6
<1>17. x \in RSizes \cup {0} /\ irows' \in {irows, R!Written(c, g)}
  BY <1>1
<1> HIDE DEF g, x
<1>18. cameras'[c] = R!Image.size /\ x = cameras'[c]
  BY <1>4 DEF x
<1>19. \A r, s \in DOMAIN rigs' : rigs'[r] = rigs'[s] => r = s
  BY <1>6
<1>20. \A d \in DOMAIN cameras : cameras'[d] = cameras[d]
  BY <1>4
<1>21. \A r \in DOMAIN rigs : r \in DOMAIN rigs' /\ rigs'[r] = rigs[r]
  BY <1>5
<1> QED
  BY <1>4, <1>5, <1>13, <1>14, <1>15, <1>16, <1>17, <1>18, <1>19, <1>20, <1>21, TakenInv

LEMMA ReadNewInv ==
    ASSUME R!CollectionsAssumption, ReaderInv, R!ReadNew
    PROVE  ReaderInv'
<1>1. R!Reading /\ R!Row.camera = 0 /\ UNCHANGED <<images, rwanted, rruns>>
  BY DEF R!ReadNew
<1> DEFINE refused == reader.camera.id # 0 /\ R!Shares /\ reader.camera.size # R!Image.size
<1>2. CASE refused
  <2>1. reader' = [reader EXCEPT !.index = @ + 1] /\ UNCHANGED <<irows, cameras, rigs>>
    BY <1>2 DEF R!ReadNew
  <2> QED
    BY <1>1, <2>1, PassInv
<1>3. CASE ~refused /\ ~R!NeedsCamera
  <2>1. /\ R!Succeed(R!Base, R!BaseRig, reader.models)
        /\ irows' \in {irows, R!Written(R!Base.id, R!BaseRig)}
        /\ UNCHANGED <<cameras, rigs>>
    BY <1>3 DEF R!ReadNew
  <2> QED
    BY <1>1, <1>3, <2>1, SameCameraInv
<1>4. CASE ~refused /\ R!NeedsCamera /\ ~R!Image.valid
  <2>1. /\ reader' = [reader EXCEPT !.index = @ + 1, !.rig = R!BaseRig,
                         !.camera = [id |-> R!Base.id, size |-> R!Image.size]]
        /\ UNCHANGED <<irows, cameras, rigs>>
    BY <1>4 DEF R!ReadNew
  <2> QED
    BY <1>1, <1>4, <2>1, RefusedInv
<1>5. CASE ~refused /\ R!NeedsCamera /\ R!Image.valid
  <2>1. PICK c : c = Len(cameras) + 1
    OBVIOUS
  <2>2. /\ cameras' = Append(cameras, R!Image.size)
        /\ rigs' = Append(rigs, c)
        /\ irows' \in {irows, R!Written(c, Len(rigs) + 1)}
        /\ R!Succeed([id |-> c, size |-> R!Image.size], Len(rigs) + 1,
                     IF R!Image.model = "none" THEN reader.models
                     ELSE {m \in reader.models : m.model # R!Model}
                             \cup {[model |-> R!Model, camera |-> c]})
    BY <1>5, <2>1 DEF R!ReadNew
  <2> HIDE DEF refused
  <2> QED
    BY <1>1, <1>5, <2>1, <2>2, NewCameraInv
<1> QED
  BY <1>2, <1>3, <1>4, <1>5

-----------------------------------------------------------------------------
LEMMA ReaderInit ==
    ASSUME R!CollectionsAssumption, R!Init
    PROVE  ReaderInv
<1>1. PICK d \in RDatabases :
         /\ cameras = d.cameras /\ rigs = d.rigs
         /\ irows = [i \in DOMAIN images |->
                       IF i \in DOMAIN d.rows THEN d.rows[i] ELSE R!NoRow]
  BY DEF R!Init
<1> DEFINE Said == [camera : 0 .. Len(cameras), rig : Nat, complete : BOOLEAN,
                    run : {0}, again : {{}}, by : R!Wishes]
<1>2. /\ cameras \in Seq(RSizes) /\ rigs \in Seq(DOMAIN cameras)
      /\ \A r, s \in DOMAIN rigs : rigs[r] = rigs[s] => r = s
      /\ \A i \in DOMAIN d.rows : d.rows[i] \in Said
  BY <1>1 DEF R!CollectionsAssumption
<1>3. /\ images \in Collections /\ rwanted = R!NoOptions /\ rruns = 0
      /\ reader = [camera |-> [id |-> 0, size |-> 0], rig |-> 0, models |-> {},
                   folders |-> {}, previous |-> R!Root, index |-> Len(images)]
  BY DEF R!Init
<1>4. /\ Len(images) \in Nat /\ R!Indices = 1 .. Len(images) /\ RRuns \in Nat
      /\ Len(cameras) \in Nat /\ Len(rigs) \in Nat
  <2>1. images \in Seq(R!Photo)
    BY <1>3 DEF R!CollectionsAssumption
  <2> QED
    BY <1>2, <2>1 DEF R!CollectionsAssumption, R!Indices
<1>5. R!NoRow \in Said
  <2>1. R!NoOptions \in R!Wishes
    BY DEF R!NoOptions, R!Wishes
  <2> QED
    BY <1>4, <2>1 DEF R!NoRow
<1>6. irows \in [R!Indices -> Said]
  <2> HIDE DEF Said
  <2> QED
    BY <1>1, <1>2, <1>5 DEF R!Indices
<1>7. \A i \in R!Indices : irows[i].run = 0 /\ irows[i].again = {}
  BY <1>6
<1>8. R!Added = {}
  BY <1>7 DEF R!Added
<1>9. R!TypeOK
  <2>1. irows \in [R!Indices -> [camera : 0 .. Len(cameras), rig : Nat, complete : BOOLEAN,
                                run : 0 .. rruns, again : SUBSET (1 .. rruns), by : R!Wishes]]
    <3>1. 0 \in 0 .. rruns /\ {} \in SUBSET (1 .. rruns)
      BY <1>3
    <3>2. Said \subseteq [camera : 0 .. Len(cameras), rig : Nat, complete : BOOLEAN,
                          run : 0 .. rruns, again : SUBSET (1 .. rruns), by : R!Wishes]
      BY <3>1
    <3> HIDE DEF Said
    <3> QED
      BY <1>6, <3>2
  <2>2. reader \in [camera : [id : 0 .. Len(cameras), size : RSizes \cup {0}],
                    rig : 0 .. Len(rigs),
                    models : SUBSET [model : Models \X RSizes, camera : DOMAIN cameras],
                    folders : SUBSET Folders, previous : Folders \cup {R!Root},
                    index : 0 .. Len(images)]
    BY <1>3, <1>4
  <2> QED
    BY <1>2, <1>3, <1>4, <2>1, <2>2 DEF R!TypeOK
<1>10. RigsPaired
  BY <1>2, <1>3, <1>8 DEF RigsPaired, R!RigsFit
<1>11. FoldersSeen
  BY <1>3 DEF FoldersSeen
<1>12. SizesKept
  BY <1>3 DEF SizesKept
<1>13. R!CamerasFit /\ R!OneCamera
  BY <1>8 DEF R!CamerasFit, R!OneCamera
<1>14. RunsPassed
  <2>1. ~R!Reading
    BY <1>3, <1>4 DEF R!Reading
  <2> QED
    BY <1>7, <2>1 DEF RunsPassed
<1>15. OneKept
  BY <1>3, <1>8 DEF OneKept, R!NoOptions
<1> QED
  BY <1>9, <1>10, <1>11, <1>12, <1>13, <1>14, <1>15 DEF ReaderInv

LEMMA ReaderStutter ==
    ASSUME ReaderInv, UNCHANGED R!vars
    PROVE  ReaderInv'
<1>1. UNCHANGED <<images, rwanted, cameras, rigs, irows, reader, rruns>>
  BY DEF R!vars
<1>2. R!TypeOK'
  BY <1>1 DEF ReaderInv, R!TypeOK, R!Indices
<1>3. R!Added' = R!Added /\ R!Indices' = R!Indices /\ Passed' = Passed
  BY <1>1 DEF R!Added, R!Indices, Passed
<1>4. RigsPaired' /\ FoldersSeen' /\ SizesKept'
  BY <1>1, <1>3 DEF ReaderInv, RigsPaired, R!RigsFit, R!HasRig, FoldersSeen, Folder, SizesKept
<1>5. R!CamerasFit' /\ R!OneCamera'
  BY <1>1, <1>3 DEF ReaderInv, R!CamerasFit, R!MetAgain, R!OneCamera
<1>6. RunsPassed'
  BY <1>1, <1>3 DEF ReaderInv, RunsPassed, R!Reading
<1>7. OneKept'
  BY <1>1, <1>3 DEF ReaderInv, OneKept, NotAgain, PlainSince
<1> QED
  BY <1>2, <1>4, <1>5, <1>6, <1>7 DEF ReaderInv

LEMMA ReaderInvariant ==
    ASSUME R!CollectionsAssumption
    PROVE  R!Spec => []ReaderInv
<1>1. R!Init => ReaderInv
  BY ReaderInit
<1>2. ReaderInv /\ [R!Next]_R!vars => ReaderInv'
  BY StartInv, SkipInv, AgainInv, ReadNewInv, ReaderStutter DEF R!Next
<1> QED
  BY <1>1, <1>2, PTL DEF R!Spec

(* Cameras, rigs and irows have the values the code gives them in every run of   *)
(* the image reader.                                                         *)
THEOREM ReaderTypeCorrect ==
    ASSUME R!CollectionsAssumption
    PROVE  R!Spec => []R!TypeOK
<1>1. ReaderInv => R!TypeOK
  BY DEF ReaderInv
<1> QED
  BY <1>1, ReaderInvariant, PTL

(* The frame of every image that is written is of the rig of its camera, and no *)
(* two rigs have the same camera, however often extraction is started again on  *)
(* the database and with whatever options.                                   *)
THEOREM ReaderRigsFit ==
    ASSUME R!CollectionsAssumption
    PROVE  R!Spec => []R!RigsFit
<1>1. ReaderInv => R!RigsFit
  BY DEF ReaderInv, RigsPaired
<1> QED
  BY <1>1, ReaderInvariant, PTL

(* Every image that is written has the size of its camera, whatever sizes the   *)
(* reader kept of images it refused, but for a camera that the user names and   *)
(* for a folder that is met again after one of its sub-folders.               *)
THEOREM ReaderCamerasFit ==
    ASSUME R!CollectionsAssumption
    PROVE  R!Spec => []R!CamerasFit
<1>1. ReaderInv => R!CamerasFit
  BY DEF ReaderInv
<1> QED
  BY <1>1, ReaderInvariant, PTL

(* With single_camera the images of one run share a camera, until an older      *)
(* image without features is read again and brings its own.                   *)
THEOREM ReaderOneCamera ==
    ASSUME R!CollectionsAssumption
    PROVE  R!Spec => []R!OneCamera
<1>1. ReaderInv => R!OneCamera
  BY DEF ReaderInv
<1> QED
  BY <1>1, ReaderInvariant, PTL

-----------------------------------------------------------------------------
(* A job says once how it ended and an automatic reconstruction ends within   *)
(* the stage that Stop() found it in (colmapkit/colmapkit.cc,                 *)
(* automatic_reconstruction.cc:221-298).                                      *)
THEOREM StoppedRunsEndAsTold == J!Spec /\ A!Spec => []EndsAsTold
<1>1. J!OneTerminalEvent /\ A!OneStageLate => EndsAsTold
  BY DEF EndsAsTold
<1> QED BY JobEndsOnce, OneStageAfterStop, <1>1, PTL

(* No geometry is stored without its matches, features once computed go into  *)
(* the database though the extraction is cancelled, and what is complete is   *)
(* not made anew (feature_matching_utils.cc:473-549,                          *)
(* feature_extraction.cc:532-538, automatic_reconstruction.cc:304-468).       *)
THEOREM NothingMadeIsLost ==
    ExtractionAssumption /\ A!StagesAssumption /\ Spec /\ E!Spec /\ A!Spec => ResultsKept
BY NoOrphans, FeaturesNeverDropped, NothingCompleteLost DEF ResultsKept

(* An extraction that nobody cancelled has written every image that features  *)
(* can be extracted from, and an automatic reconstruction that nobody stopped *)
(* has made everything of every model (feature_extraction.cc:564-578,         *)
(* automatic_reconstruction.cc:228-491).                                      *)
THEOREM RunsMakeEverything ==
    ExtractionAssumption /\ A!StagesAssumption /\ E!Spec /\ A!Spec => []AllWritten
<1> SUFFICES ASSUME ExtractionAssumption, A!StagesAssumption
             PROVE  E!Spec /\ A!Spec => []AllWritten
  OBVIOUS
<1>1. E!AllWritten /\ A!AllMade => AllWritten
  BY DEF AllWritten
<1>2. E!Spec => []E!AllWritten
  BY ExtractionComplete
<1>3. A!Spec => []A!AllMade
  BY EverythingIsMade
<1> QED BY <1>1, <1>2, <1>3, PTL
===============================================================================
