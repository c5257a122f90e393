-------------------------- MODULE MCImportSession --------------------------
EXTENDS ImportSession

CONSTANTS i1, A, B, f1, f2, f3

\* Ids are sets: of items when they name a lot, of a nonce when they are fresh.
FreshIds == {{f1}, {f2}, {f3}}
LotAndFresh == {{i1}} \union FreshIds

Media(source, archived, asset, thumbnail) ==
    [source |-> source, archive |-> archived, asset |-> asset, thumbnail |-> thumbnail]

\* What the collector's parser and its media patches make of one element.
CollectorOffers ==
    {NoReference,
     Media("not_downloaded", "metadata_only", NoHash, NoHash),
     Media("missing", "thumbnail_only", NoHash, B),
     Media("downloaded", "failed", NoHash, NoHash),
     Media("downloaded", "complete", A, NoHash)}

=============================================================================
