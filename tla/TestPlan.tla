------------------------------ MODULE TestPlan ------------------------------
(***************************************************************************)
(* From the setups of a campaign to the images that are tested             *)
(* (setup_generator/test_engine.py, main() of DAAT-MCS_profiler.py).       *)
(* For each setup main() combines the guests, splits the cache among them  *)
(* and limits their memory bandwidth, writes one file for each             *)
(* configuration and builds the images.  Then it tests the images by their *)
(* names: a result belongs to the configuration its name tells.            *)
(*                                                                         *)
(* A name is a record of what the program puts into it; two of them are    *)
(* equal when these are.  The program knows the files and the images by    *)
(* their names only.  The directory of images is empty at first, a setup   *)
(* called ..profiling.. ends in it, and the name of the benchmark, up to   *)
(* which main() cuts a name off, occurs in none.                           *)
(* An operator marked Fault is a slip the checks must notice: it stands    *)
(* next to the operator it may replace, and no action uses it.             *)
(***************************************************************************)
EXTENDS Integers, Sequences, FiniteSets, SequencesExt

CONSTANTS
  Campaigns,     (* What list_setups and setups_configs may hold.          *)
  Variants,      (* How many configurations each guest has.                *)
  NumColours,    (* num_cache_colors                                       *)
  MaxFailures    (* Bound on the builds of a setup that fail: 0 or 1.      *)

GroupOrder == << "linux", "cache", "embench", "cci", "profiler" >>
Groups     == Range(GroupOrder)
Colours    == 0..(NumColours - 1)

(* A setup: its guests; whether its name asks for the profiler and its     *)
(* configuration for colouring; the colourings it lists; for some guests   *)
(* the budgets to be tried.                                                *)
Setups == [guests : (SUBSET Groups) \ {{}}, profiling : BOOLEAN,
           colouring : BOOLEAN, listed : Seq(Seq(SUBSET Colours)),
           budgets : Seq([guest : Groups, choices : Seq(Nat)])]

(* A guest has one list of budgets, and a budget is in it once: the program*)
(* keeps both in dictionaries (mbr_configuration).                         *)
Dictionaries(budgets) ==
  /\ \A i, j \in DOMAIN budgets : budgets[i].guest = budgets[j].guest => i = j
  /\ \A i \in DOMAIN budgets : IsInjective(budgets[i].choices)

ASSUME ConstantsAssumption ==
  /\ \A c \in Campaigns : c # << >> /\ c \in Seq(Setups)
  /\ \A c \in Campaigns : \A i \in DOMAIN c : Dictionaries(c[i].budgets)
  /\ Variants \in [Groups -> Nat \ {0}]
  /\ NumColours \in Nat \ {0}
  /\ MaxFailures \in 0..1

VARIABLES
  campaign,      (* The setups, in the order of list_setups.               *)
  setup,         (* The one main() is at,                                  *)
  pc,            (* and where it is.                                       *)
  listConfigs,   (* list_configs: names                                    *)
  files,         (* By setup and name: the configurations written.         *)
  images,        (* By name: what was built.                               *)
  plan,          (* list_bao_imgs: names                                   *)
  test,          (* The test under way.                                    *)
  copied, tftp   (* Whether its image was copied; what the board boots.    *)

vars == << campaign, setup, pc, listConfigs, files, images, plan, test,
           copied, tftp >>

Init ==
  /\ campaign \in Campaigns
  /\ setup = 1
  /\ pc = "generate"
  /\ listConfigs = << >>
  /\ files = << >>
  /\ images = << >>
  /\ plan = << >>
  /\ test = 0
  /\ copied = FALSE
  /\ tftp = << >>

-----------------------------------------------------------------------------
(* The n-th of some places in a sequence, and what is at these places, in  *)
(* their order.                                                            *)
Place(places, n) ==
  CHOOSE i \in places : Cardinality({j \in places : j < i}) = n - 1
Picked(seq, places) ==
  [n \in 1..Cardinality(places) |-> seq[Place(places, n)]]

(* What is written last counts.                                            *)
Over(new, old) ==
  [key \in DOMAIN new \cup DOMAIN old |->
     IF key \in DOMAIN new THEN new[key] ELSE old[key]]

(* itertools.product: the last sequence varies fastest.                    *)
Times(product, seq) ==
  [k \in 1..(Len(product) * Len(seq)) |->
     Append(product[(k - 1) \div Len(seq) + 1], seq[((k - 1) % Len(seq)) + 1])]
Product(seqs) ==
  LET upTo[n \in 0..Len(seqs)] ==
        IF n = 0 THEN << << >> >> ELSE Times(upTo[n - 1], seqs[n])
  IN  upTo[Len(seqs)]

(* combine_guests: one guest of every group that the setup has, and the    *)
(* names of what comes of it behind those that are in the list.  The       *)
(* profiler is left out unless the name of the setup asks for it.          *)
Present(s) ==
  Picked(GroupOrder,
         {i \in DOMAIN GroupOrder :
            /\ GroupOrder[i] \in s.guests
            /\ GroupOrder[i] = "profiler" => s.profiling})
Combinations(s) ==
  Product([k \in DOMAIN Present(s) |->
             [v \in 1..Variants[Present(s)[k]] |->
                [group |-> Present(s)[k], variant |-> v]]])
CombinedNames(s) ==
  listConfigs \o [i \in DOMAIN Combinations(s) |->
                    [guests |-> Combinations(s)[i], tags |-> << >>]]

(* A Python dictionary: the later of two values has the place of the first.*)
AsDict(pairs) ==
  LET Same(i)  == {j \in DOMAIN pairs : pairs[j].name = pairs[i].name}
      Latest(i) == CHOOSE j \in Same(i) : \A k \in Same(i) : k <= j
      firsts    == {i \in DOMAIN pairs : \A j \in Same(i) : i <= j}
  IN  [k \in 1..Cardinality(firsts) |-> pairs[Latest(Place(firsts, k))]]

(* generate_configs: the i-th configuration gets the i-th name there is.   *)
Named(s) ==
  LET combinations == Combinations(s)
      names == CombinedNames(s)
  IN  AsDict([i \in DOMAIN combinations |->
                [name |-> names[i],
                 vms  |-> [k \in DOMAIN combinations[i] |->
                             [guest |-> combinations[i][k], colours |-> {},
                              open |-> FALSE, budget |-> 0]]]])

Segment(from, to) == from..to            (* Fault: one colour too many.    *)
Between(from, to) == from..(to - 1)

(* generate_cache_colors_assignment: consecutive colours for each of n,    *)
(* at least two, by the points between them.                               *)
Points(n) ==
  {<< 0 >> \o p \o << NumColours >> :
     p \in {q \in [1..(n - 1) -> 1..(NumColours - 1)] :
              \A i, j \in 1..(n - 1) : i < j => q[i] < q[j]}}
Precedes(p, q) ==
  \E i \in DOMAIN p : p[i] < q[i] /\ \A j \in 1..(i - 1) : p[j] = q[j]
Assignments(n) ==
  LET wide == {p \in Points(n) : \A i \in 1..n : p[i + 1] - p[i] >= 2}
      Nth(k) == CHOOSE p \in wide :
                  Cardinality({q \in wide : Precedes(q, p)}) = k - 1
  IN  [k \in 1..Cardinality(wide) |->
         [i \in 1..n |-> Between(Nth(k)[i], Nth(k)[i + 1])]]

(* main(): among how many the cache is split; a profiler in any setup      *)
(* counts as one guest of this one.                                        *)
HasProfiler == \E i \in DOMAIN campaign : "profiler" \in campaign[i].guests
AllButOne(s) == Cardinality(s.guests) - 1      (* Fault: always one less.  *)
NumVms(s) ==
  (IF Cardinality(s.guests) = 1 THEN 2 ELSE Cardinality(s.guests))
  - (IF HasProfiler THEN 1 ELSE 0)
Colourings(s) ==
  IF ~ s.colouring THEN << >>
  ELSE IF s.listed # << >> THEN s.listed
  ELSE Assignments(NumVms(s))

(* generate_cache_colors_code: the colours go to the guests that have a    *)
(* place for them, Linux first; places for which there are none stay as    *)
(* they are.                                                               *)
HasPlace(vm) == vm.guest.group # "profiler"
Coloured(config, colours) ==
  [name |-> [config.name EXCEPT !.tags =
               Append(@, [kind   |-> "cc",
                          guests |-> << >>,
                          values |-> [k \in DOMAIN colours |->
                                        Cardinality(colours[k])]])],
   vms  |-> [k \in DOMAIN config.vms |->
               IF ~ HasPlace(config.vms[k]) THEN config.vms[k]
               ELSE IF k > Len(colours)
                    THEN [config.vms[k] EXCEPT !.open = TRUE]
                    ELSE [config.vms[k] EXCEPT !.colours = colours[k]]]]

(* generate_mbr_assignments: a budget for each guest that has some.        *)
BudgetChoices(s) ==
  LET some == Picked(s.budgets,
                     {i \in DOMAIN s.budgets : s.budgets[i].choices # << >>})
  IN  IF some = << >> THEN << >>
      ELSE Product([k \in DOMAIN some |->
                      [c \in DOMAIN some[k].choices |->
                         [guest |-> some[k].guest, budget |-> some[k].choices[c]]]])

(* generate_mbr_code: a place for the budget of a bare-metal guest, or of  *)
(* Linux, takes the next of the budgets for such guests, or the last.      *)
Kind(g) == IF g \in {"linux", "profiler"} THEN g ELSE "baremetal"
BudgetAt(vms, k, choice) ==
  LET kind    == Kind(vms[k].guest.group)
      fitting == Picked(choice, {b \in DOMAIN choice : Kind(choice[b].guest) = kind})
      place   == Cardinality({j \in 1..k : Kind(vms[j].guest.group) = kind})
  IN  IF fitting = << >> \/ kind = "profiler" THEN 0
      ELSE IF place > Len(fitting) THEN Last(fitting).budget
      ELSE fitting[place].budget
Limited(config, choice) ==
  [name |-> [config.name EXCEPT !.tags =
               Append(@, [kind   |-> "mbr",
                          guests |-> [k \in DOMAIN choice |-> choice[k].guest],
                          values |-> [k \in DOMAIN choice |-> choice[k].budget]])],
   vms  |-> [k \in DOMAIN config.vms |->
               [config.vms[k] EXCEPT !.budget =
                  BudgetAt(config.vms, k, choice)]]]

(* generate_interference_mitigation_configurations: every configuration    *)
(* in every colouring with every choice of budgets, or as it is.           *)
InColours(config, colourings) ==
  IF colourings = << >> THEN << config >>
  ELSE [k \in DOMAIN colourings |-> Coloured(config, colourings[k])]
WithBudgets(config, choices) ==
  IF choices = << >> THEN << config >>
  ELSE [k \in DOMAIN choices |-> Limited(config, choices[k])]
Mitigated(s) ==
  LET plain    == Named(s)
      coloured == FlattenSeq([i \in DOMAIN plain |->
                                InColours(plain[i], Colourings(s))])
  IN  FlattenSeq([i \in DOMAIN coloured |->
                    WithBudgets(coloured[i], BudgetChoices(s))])

KeptNames(s) == CombinedNames(s)         (* Fault: the list is not reset.  *)
NoNames(s)   == << >>

(* One file for each name, of the last configuration of that name.         *)
Written(configs) ==
  [key \in {<< setup, configs[i].name >> : i \in DOMAIN configs} |->
     configs[CHOOSE i \in DOMAIN configs :
               /\ configs[i].name = key[2]
               /\ \A j \in DOMAIN configs :
                    configs[j].name = key[2] => j <= i].vms]

GenerateTests ==
  /\ pc = "generate"
  /\ LET configs == Mitigated(campaign[setup]) IN
     /\ listConfigs' = NoNames(campaign[setup])
                       \o [i \in DOMAIN configs |-> configs[i].name]
     /\ files' = Over(Written(configs), files)
  /\ pc' = "build"
  /\ UNCHANGED << campaign, setup, images, plan, test, copied, tftp >>

OwnSetup   == setup                      (* Fault: where it was written.   *)
FirstSetup == 1

(* build_tests: from the directory of the first setup, into the one        *)
(* directory of images.  A build that fails is reported and passed over.   *)
BuildTests ==
  /\ pc = "build"
  /\ \E failed \in {{}} \cup {{n} : n \in Range(listConfigs)} :
       /\ Cardinality(failed) <= MaxFailures
       /\ LET built == {n \in Range(listConfigs) \ failed :
                          << FirstSetup, n >> \in DOMAIN files}
          IN  images' = Over([n \in built |-> files[<< FirstSetup, n >>]], images)
  /\ IF setup < Len(campaign)
     THEN setup' = setup + 1 /\ pc' = "generate"
     ELSE pc' = "list" /\ UNCHANGED setup
  /\ UNCHANGED << campaign, listConfigs, files, plan, test, copied, tftp >>

(* main(): for each setup the names that are in the list now.              *)
ListImages ==
  /\ pc = "list"
  /\ plan' = FlattenSeq([i \in DOMAIN campaign |-> listConfigs])
  /\ pc' = "test"
  /\ UNCHANGED << campaign, setup, listConfigs, files, images, test, copied,
                  tftp >>

(* launch_test, for the next test or once more for this one: when the      *)
(* image is not there, or cannot be copied, the board boots what it booted *)
(* before.                                                                 *)
LaunchTest ==
  /\ pc = "test"
  /\ test' \in {test, test + 1} \cap DOMAIN plan
  /\ \/ /\ plan[test'] \in DOMAIN images
        /\ copied' = TRUE
        /\ tftp' = << images[plan[test']] >>
     \/ copied' = FALSE /\ UNCHANGED tftp
  /\ UNCHANGED << campaign, setup, pc, listConfigs, files, images, plan >>

Next == GenerateTests \/ BuildTests \/ ListImages \/ LaunchTest

Spec == Init /\ [][Next]_vars

-----------------------------------------------------------------------------
IsVm(vm) ==
  /\ vm.guest.group \in Groups
  /\ vm.guest.variant \in 1..Variants[vm.guest.group]
  /\ vm.colours \subseteq Colours
  /\ vm.open \in BOOLEAN
  /\ vm.budget \in Nat
IsName(n) ==
  /\ \A k \in DOMAIN n.guests : n.guests[k].group \in Groups
  /\ \A k \in DOMAIN n.tags : n.tags[k].kind \in {"cc", "mbr"}

TypeOK ==
  /\ campaign \in Campaigns
  /\ setup \in DOMAIN campaign
  /\ pc \in {"generate", "build", "list", "test"}
  /\ \A i \in DOMAIN listConfigs : IsName(listConfigs[i])
  /\ \A key \in DOMAIN files :
       /\ key[1] \in 1..setup
       /\ IsName(key[2])
       /\ \A k \in DOMAIN files[key] : IsVm(files[key][k])
  /\ DOMAIN images \subseteq {key[2] : key \in DOMAIN files}
  /\ \A i \in DOMAIN plan : IsName(plan[i])
  /\ test \in 0..Len(plan)
  /\ copied \in BOOLEAN
  /\ Len(tftp) <= 1

(* The budgets are listed in the order of the guests: then the next budget *)
(* is that of the next guest.                                              *)
InOrder(guests, tag) ==
  LET Bare(seq) == Picked(seq, {i \in DOMAIN seq : Kind(seq[i]) = "baremetal"})
  IN  IsPrefix(Bare(tag.guests),
               Bare([k \in DOMAIN guests |-> guests[k].group]))

(* What a name tells of the configuration that has it; of the profiler,    *)
(* which has a place neither for colours nor for a budget, nothing.        *)
TellsColours(tag, vms) ==
  \A k \in DOMAIN vms :
    HasPlace(vms[k]) /\ k <= Len(tag.values) =>
      Cardinality(vms[k].colours) = tag.values[k]
TellsBudgets(tag, vms) ==
  \A k \in DOMAIN vms : \A b \in DOMAIN tag.guests :
    HasPlace(vms[k]) /\ vms[k].guest.group = tag.guests[b] =>
      vms[k].budget = tag.values[b]
Tells(name, vms) ==
  /\ name.guests = [k \in DOMAIN vms |-> vms[k].guest]
  /\ \A t \in DOMAIN name.tags :
       LET tag == name.tags[t] IN
       /\ tag.kind = "cc" => TellsColours(tag, vms)
       /\ tag.kind = "mbr" /\ InOrder(name.guests, tag) => TellsBudgets(tag, vms)

(* What is tested under a name is what the name tells, if the image was    *)
(* copied and the budgets are listed in the order of the guests, although  *)
(* from the second setup on configurations are written under the names of  *)
(* others: of these none is built, for the builds look for the             *)
(* configurations of the first setup.  If the image was not copied, what   *)
(* is tested belongs to a test before.                                     *)
ResultsAsNamed ==
  /\ test > 0 /\ copied => Tells(plan[test], tftp[1])
  /\ tftp # << >> => \E k \in 1..test : Tells(plan[k], tftp[1])

(* The shares of n guests that own consecutive colours, in their order,    *)
(* two at least each.                                                      *)
Shares(n) ==
  LET Share(owner)  == [i \in 1..n |-> {c \in Colours : owner[c] = i}]
      Ordered(owner) == \A c, d \in Colours : c < d => owner[c] <= owner[d]
  IN  {Share(owner) : owner \in
         {o \in [Colours -> 1..n] :
            Ordered(o) /\ \A i \in 1..n : Cardinality(Share(o)[i]) >= 2}}

WantedGuests(s) ==
  {[k \in DOMAIN Present(s) |-> [group |-> Present(s)[k], variant |-> v[k]]] :
     v \in {w \in [DOMAIN Present(s) -> 1..Max({Variants[g] : g \in Groups})] :
              \A k \in DOMAIN Present(s) : w[k] <= Variants[Present(s)[k]]}}
WantedColours(s) ==
  LET ways == IF ~ s.colouring THEN {<< >>}
              ELSE IF s.listed # << >> THEN Range(s.listed)
              ELSE IF Shares(NumVms(s)) = {} THEN {<< >>}
              ELSE Shares(NumVms(s))
  IN  {[k \in DOMAIN Present(s) |->
          IF k \in DOMAIN w /\ Present(s)[k] # "profiler" THEN w[k] ELSE {}] :
         w \in ways}
WantedBudgets(s) ==
  LET some == {b \in Range(s.budgets) : b.choices # << >>}
  IN  {t \in [some -> UNION {Range(b.choices) : b \in some}] :
         \A b \in some : t[b] \in Range(b.choices)}
Wanted(s) ==
  WantedGuests(s) \X WantedColours(s)
    \X {{<< b.guest, t[b] >> : b \in DOMAIN t} : t \in WantedBudgets(s)}

(* What a test of the plan is about.                                       *)
Limits(name) ==
  UNION {{<< tag.guests[b], tag.values[b] >> : b \in DOMAIN tag.guests} :
           tag \in Range(name.tags)}
About(name) ==
  LET vms == files[<< 1, name >>]
  IN  << [k \in DOMAIN vms |-> vms[k].guest],
         [k \in DOMAIN vms |-> vms[k].colours], Limits(name) >>

(* Two colourings that give as many colours to each guest have one name:   *)
(* the later overwrites the earlier, and is tested twice.                  *)
SameCounts(s) ==
  \E i, j \in DOMAIN s.listed :
    /\ i # j
    /\ Len(s.listed[i]) = Len(s.listed[j])
    /\ \A k \in DOMAIN s.listed[i] :
         Cardinality(s.listed[i][k]) = Cardinality(s.listed[j][k])

(* A campaign of one setup tests every combination of its guests in every  *)
(* colouring with every choice of budgets, each once, unless two of the    *)
(* colourings listed have the same counts.                                 *)
EachOnce ==
  pc = "test" /\ test = 0 /\ Len(campaign) = 1 /\ ~ SameCounts(campaign[1])
  =>
    /\ \A i, j \in DOMAIN plan : i # j => plan[i] # plan[j]
    /\ \A i \in DOMAIN plan : << 1, plan[i] >> \in DOMAIN files
    /\ {About(plan[i]) : i \in DOMAIN plan} = Wanted(campaign[1])

(* Where the colourings are generated every guest gets colours of its own, *)
(* two at least, as generate_cache_colors_code promises to replace all     *)
(* places for them: unless the profiler is in another setup only, or the   *)
(* cache has too few colours.                                              *)
AllColoured ==
  \A key \in DOMAIN files :
    LET s   == campaign[key[1]]
        vms == files[key]
    IN  /\ s.colouring /\ s.listed = << >>
        /\ HasProfiler => "profiler" \in s.guests
        /\ 2 * NumVms(s) <= NumColours
        => \A k \in DOMAIN vms : HasPlace(vms[k]) =>
             /\ ~ vms[k].open
             /\ Cardinality(vms[k].colours) >= 2
             /\ \A j \in DOMAIN vms :
                  j # k => vms[j].colours \cap vms[k].colours = {}
=============================================================================
