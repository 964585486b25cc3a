CONSTANTS
  i1=i1 i2=i2 c1=c1 c2=c2 p1=p1 p2=p2 coll=coll res=res
  Handler={p1,p2}
  Name={i1,i2} Member={u1,u2,root} Code={c1,c2} TypeOf<-Types GlobalAdmin={root} Tries=2 MaxInstCalls=5
  Reader={u1,u2} ArticlePin={n1,n2} MaxEdits=2 MaxArtCalls=6
  File={f1,f2,f3} Url={u1}
  Key={k1,k2} Request={q1,q2,q3} Limit=1 Window=2 Retention=2 Skew=1 MaxLimitTime=3
  PublicExam={xp} InstitutionExam={xi} Viewer={u1,u2} Student=u1 Global={} MaxListingTime=2
  Resource={res} Collection={coll} User={u1,root} Admin={root} Pin={n1} Proc={caller}
  MaxItems=1 MaxCollections=1 MaxVersion<-Versions
SPECIFICATION PlatformSpec
CHECK_DEADLOCK FALSE
INVARIANTS InstitutionsSound ArticlesSound PicturesSound LimitsSound PinPresented CollectionsSound ListedIsVisible ListingsSound HistorySound
PROPERTIES DecisionsStand ArticleKept WindowHonoured
SYMMETRY Symmetry
