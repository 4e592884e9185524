------------------------ MODULE MCEvolutionTraining ------------------------
(* EvolutionTraining on small instances.                                   *)
EXTENDS EvolutionTraining

OneGenome ==
  [populationSize |-> 1, genomic |-> {1}, maxGenerations |-> 2,
   robustFitnessEvaluationCount |-> 0, diversityEliteCount |-> 0,
   diversityEliteFitnessEpsilon |-> 0, genomeArchiveMaxSize |-> 2]

\* Two genomes and no validation.
TwoGenomes ==
  [OneGenome EXCEPT !.populationSize = 2, !.genomic = {1, 2}, !.maxGenerations = 3,
     !.diversityEliteCount = 1, !.genomeArchiveMaxSize = 1]

\* A genome, a brain without one, and validations of two samples.
Mixed ==
  [OneGenome EXCEPT !.populationSize = 2, !.robustFitnessEvaluationCount = 2,
     !.genomeArchiveMaxSize = 1]

\* Validations without end and an archive that keeps everything.
Unlimited ==
  [OneGenome EXCEPT !.maxGenerations = 0, !.robustFitnessEvaluationCount = 2,
     !.genomeArchiveMaxSize = 0]

\* Validations of one sample, and an archive of two genomes.
Validated == [OneGenome EXCEPT !.robustFitnessEvaluationCount = 1]

SafetyConfigs == {TwoGenomes, Mixed, Unlimited}

\* Two limits on the archive, the lower one with validation.
ArchiveConfigs ==
  {[OneGenome EXCEPT !.maxGenerations = 1], [Validated EXCEPT !.genomeArchiveMaxSize = 1]}

MarkConfigs == {OneGenome}

\* Nothing, or a full archive that an earlier session of another scenario left.
OldEntry == [fitness |-> 6, samples |-> <<6>>, managed |-> TRUE]
NoArchive == {<<>>}
OldArchive == {<<OldEntry, OldEntry>>}

\* A client brings a genome of this bucket.
ManagedImports == {OldEntry}
=============================================================================
